---- MODULE Spec2Model ----
(***************************************************************************)
(* Model of the launcher's mod manager (cmodmanager.cpp): the validators,  *)
(* the activation-document writer, the archive inspector, the guarded      *)
(* directory remover and the install / uninstall / enable / disable        *)
(* operations.                                                             *)
(*                                                                         *)
(* Strings.  A QString is modelled as the sequence of its '/'-separated    *)
(* fields, so "/activeMods/a/active" is <<"", "activeMods", "a", "active">>*)
(* and the empty string is <<"">>.  A mod name is the sequence of its      *)
(* '.'-separated parts, so "a.s" is <<"a", "s">>.                          *)
(***************************************************************************)
EXTENDS Integers, Sequences, FiniteSets, TLC

VARIABLES
    wv,     \* the writeValue call of the write harness
    ar,     \* the detectModArchive call of the archive harness
    rm,     \* the removeModDir call of the remover harness
    disk,   \* the filesystem: existing absolute path -> what is there
    ios,    \* whether the build defines VCMI_IOS
    localMods,      \* CModManager::localMods, as published to the mod list
    modSettings,    \* CModManager::modSettings, the activation document in memory
    settingsFile,   \* modSettings.json as persisted
    recentErrors,   \* CModManager::recentErrors
    installs,       \* the doInstallMod calls in flight, innermost last
    last,           \* the call that returned last
    reentrant,      \* whether the event loop hands requests to the manager while
                    \* the polling loop of an install services it
    en,             \* the doEnableMod call in progress, statement by statement
    imp             \* the Android data import: picker results, copy tasks, reports

mgr == <<localMods, modSettings, settingsFile, recentErrors, installs, last, reentrant, en>>
vars == <<wv, ar, rm, disk, ios, mgr, imp>>

-----------------------------------------------------------------------------
(* Bounds of the model *)

\* longest route (number of keys) handed to writeValue by the write harness
MaxRoute == 3

\* most entries of an archive handed to detectModArchive by the archive harness
MaxEntries == 3

\* the error log is drained before a request is made with this many entries in it
MaxErrors == 1

\* most doInstallMod calls in flight at once (the outer ones wait in processEvents)
MaxInstalls == 1

\* the longest error log of the log harness
MaxLog == 3

\* most poll ticks of one doInstallMod call before its extraction is over
MaxTicks == 2

-----------------------------------------------------------------------------
(* QString primitives *)

\* number of characters of every field the model uses
TokLen(t) ==
    CASE t = "" -> 0
      [] t \in {"a", "b", "c", "s", "x"} -> 1
      [] t \in {"A"} -> 1
      [] t = "active" -> 6
      [] t = "mods" -> 4
      [] t = "Mods" -> 4
      [] t = "activeMods" -> 10
      [] t = "mod.json" -> 8
      [] OTHER -> 3

RECURSIVE SumLen(_)
SumLen(s) == IF s = <<>> THEN 0 ELSE TokLen(Head(s)) + SumLen(Tail(s))

\* QString::size(): the characters of the fields plus the separators between them
Size(s) == SumLen(s) + (Len(s) - 1)

\* QString::section('/', start, end) with the default flags: fields are counted
\* from 0, empty fields count, end = -1 means "to the last field"
Section(s, start, end) ==
    LET lastField == IF end = -1 \/ end > Len(s) - 1 THEN Len(s) - 1 ELSE end
    IN  IF start > lastField THEN <<"">> ELSE SubSeq(s, start + 1, lastField + 1)

\* "/" + s
SlashPlus(s) == <<"">> \o s

\* QString::remove(0, 1) on a string that is empty or starts with '/'
RemoveFirst(s) == IF Len(s) >= 2 /\ s[1] = "" THEN Tail(s) ELSE s

\* the string of a single field
Field(s) == s[1]

-----------------------------------------------------------------------------
(* QVariant / QVariantMap *)

Null == [t |-> "null"]
BoolV(b) == [t |-> "bool", b |-> b]
MapV(m) == [t |-> "map", m |-> m]
EmptyMap == [k \in {} |-> Null]

\* QVariant::toMap(): the map held, or an empty map
ToMap(v) == IF v.t = "map" THEN v.m ELSE EmptyMap

\* QVariant::toBool()
ToBool(v) == v.t = "bool" /\ v.b

\* QVariantMap::value(key): the value stored, or a null QVariant
MapValue(m, k) == IF k \in DOMAIN m THEN m[k] ELSE Null

\* QVariantMap::insert(key, value): replaces or adds the one key
MapInsert(m, k, v) == [x \in (DOMAIN m) \cup {k} |-> IF x = k THEN v ELSE m[x]]

-----------------------------------------------------------------------------
(* SettingsStore: writeValue *)

RECURSIVE writeValue_dropSiblings(_, _, _)
writeValue_dropSiblings(path, input, value) ==
    IF Size(path) > 1
    THEN LET entryName == Field(RemoveFirst(Section(path, 0, 1)))
             remainder == SlashPlus(Section(path, 2, -1))
         IN  MapV([x \in {entryName} |->
                     writeValue_dropSiblings(remainder,
                                             ToMap(MapValue(input, entryName)), value)])
    ELSE value

RECURSIVE writeValue(_, _, _)
writeValue(path, input, value) ==
    IF Size(path) > 1
    THEN LET entryName == Field(RemoveFirst(Section(path, 0, 1)))
             remainder == SlashPlus(Section(path, 2, -1))
         IN  MapV(MapInsert(input, entryName,
                            writeValue(remainder, ToMap(MapValue(input, entryName)), value)))
    ELSE value

-----------------------------------------------------------------------------
(* Harness for writeValue: inputs drawn from bounded sets *)

WKeys == {"a", "active", "x"}

\* well-formed routes "/<key>/.../<key>" of 1..MaxRoute keys
Routes == UNION {[1..n -> WKeys] : n \in 1..MaxRoute}
RoutePath(keys) == <<"">> \o keys

MapsOver(keys, vals) == UNION {[d -> vals] : d \in SUBSET keys}

WLeaves == {BoolV(TRUE), BoolV(FALSE)}
WNodes == WLeaves \cup {MapV(m) : m \in MapsOver({"active", "x"}, WLeaves)}
WDocs == MapsOver({"a", "x"}, WNodes)

WIdle == [st |-> "idle"]
EIdle == [st |-> "idle"]

\* the import before any folder was picked: the parent of the data directory exists
ImpIdle == [dirs |-> {<<>>}, files |-> {}, tasks |-> <<>>, reports |-> <<>>, handled |-> 0,
            result |-> [requestCode |-> 0, resultCode |-> "", hasData |-> FALSE, uri |-> <<>>]]
AIdle == [st |-> "idle"]
RIdle == [st |-> "idle"]
NoDisk == [p \in {} |-> [kind |-> "dir"]]
NoCall == [op |-> "none"]

\* the manager is not part of the harnesses of the pure functions
MgrIdle ==
    /\ localMods = EmptyMap
    /\ modSettings = EmptyMap
    /\ settingsFile = EmptyMap
    /\ recentErrors = <<>>
    /\ installs = <<>>
    /\ last = NoCall
    /\ reentrant = FALSE
    /\ en = EIdle
    /\ imp = ImpIdle

WriteInit ==
    /\ \E keys \in Routes, d \in WDocs, v \in WLeaves \cup {MapV(EmptyMap)} :
          wv = [st |-> "call", keys |-> keys, input |-> d, value |-> v]
    /\ ar = AIdle
    /\ rm = RIdle
    /\ disk = NoDisk
    /\ ios = FALSE
    /\ MgrIdle

WriteCall ==
    /\ wv.st = "call"
    /\ wv' = [st |-> "done", keys |-> wv.keys, input |-> wv.input, value |-> wv.value,
              out |-> writeValue(RoutePath(wv.keys), wv.input, wv.value)]
    /\ UNCHANGED <<imp, ar, rm, disk, ios, mgr>>

SpecWrite == WriteInit /\ [][WriteCall]_vars

\* the value found by following the keys from node v; null where the route leaves the tree
RECURSIVE ReadPath(_, _)
ReadPath(v, keys) ==
    IF keys = <<>> THEN v
    ELSE IF v.t = "map" /\ Head(keys) \in DOMAIN v.m
         THEN ReadPath(v.m[Head(keys)], Tail(keys))
         ELSE Null

\* the keys of node v other than k, with their subtrees, are those of node w
SiblingsKept(v, w, k) ==
    v.t = "map" =>
        \A x \in (DOMAIN v.m) \ {k} :
            w.t = "map" /\ x \in DOMAIN w.m /\ w.m[x] = v.m[x]

\* C9: writing value v at a well-formed route and reading the route back yields v,
\* and at every node along the route each sibling key present before the write is
\* present with an unchanged subtree afterwards.
WriteValueRoundTrip ==
    wv.st = "done" =>
        /\ ReadPath(wv.out, wv.keys) = wv.value
        /\ \A i \in 0..(Len(wv.keys) - 1) :
              SiblingsKept(ReadPath(MapV(wv.input), SubSeq(wv.keys, 1, i)),
                           ReadPath(wv.out, SubSeq(wv.keys, 1, i)),
                           wv.keys[i + 1])

\* a write two keys deep that changes an existing leaf and has siblings at both nodes
WriteValueRoundTripWitness ==
    /\ wv.st = "done"
    /\ wv.keys = <<"a", "active">>
    /\ DOMAIN wv.input = {"a", "x"}
    /\ wv.input["a"] = MapV([active |-> BoolV(FALSE), x |-> BoolV(TRUE)])
    /\ wv.value = BoolV(TRUE)
    /\ ReadPath(wv.out, <<"a", "x">>) = BoolV(TRUE)
    /\ ReadPath(wv.out, <<"x">>) = wv.input["x"]

-----------------------------------------------------------------------------
(* ArchiveInspector: detectModArchive *)

\* the first file of the list, in order, that is "<its first folderLevel+1 fields>/mod.json";
\* <<>> when none is
RECURSIVE FirstManifestDir(_, _)
FirstManifestDir(files, folderLevel) ==
    IF files = <<>> THEN <<>>
    ELSE LET filename == Head(files)
             modDirName == Section(filename, 0, folderLevel)
         IN  IF filename = modDirName \o <<"mod.json">>
             THEN <<modDirName>>
             ELSE FirstManifestDir(Tail(files), folderLevel)

detectModArchive_firstEntry(filesToExtract) ==
    IF filesToExtract = <<>> THEN <<"">> ELSE Section(Head(filesToExtract), 0, 0)

\* the deeper level searched before the shallow one
detectModArchive_deepFirst(filesToExtract) ==
    LET level0 == FirstManifestDir(filesToExtract, 0)
        level1 == FirstManifestDir(filesToExtract, 1)
    IN  IF level1 # <<>> THEN level1[1]
        ELSE IF level0 # <<>> THEN level0[1]
        ELSE <<"">>

\* the folder of the first entry when no manifest is found
detectModArchive_neverEmpty(filesToExtract) ==
    LET level0 == FirstManifestDir(filesToExtract, 0)
        level1 == FirstManifestDir(filesToExtract, 1)
    IN  IF level0 # <<>> THEN level0[1]
        ELSE IF level1 # <<>> THEN level1[1]
        ELSE detectModArchive_firstEntry(filesToExtract)

\* the mod folder inside the archive, or the empty string
detectModArchive(filesToExtract) ==
    LET level0 == FirstManifestDir(filesToExtract, 0)
        level1 == FirstManifestDir(filesToExtract, 1)
    IN  IF level0 # <<>> THEN level0[1]
        ELSE IF level1 # <<>> THEN level1[1]
        ELSE <<"">>

(* Harness for detectModArchive *)

AEntries ==
    { <<"Foo", "mod.json">>, <<"Bar", "mod.json">>, <<"Foo", "Bar", "mod.json">>,
      <<"mod.json">>, <<"Foo", "">>, <<"Foo", "x">>, <<"Bar", "x">>, <<"x">>,
      <<"Foo", "Bar", "x">> }

DistinctSeqs(S, n) ==
    {s \in [1..n -> S] : \A i, j \in 1..n : i # j => s[i] # s[j]}

Archives == UNION {DistinctSeqs(AEntries, n) : n \in 0..MaxEntries}

ArchiveInit ==
    /\ \E files \in Archives : ar = [st |-> "call", files |-> files]
    /\ wv = WIdle
    /\ rm = RIdle
    /\ disk = NoDisk
    /\ ios = FALSE
    /\ MgrIdle

ArchiveCall ==
    /\ ar.st = "call"
    /\ ar' = [st |-> "done", files |-> ar.files, out |-> detectModArchive(ar.files)]
    /\ UNCHANGED <<imp, wv, rm, disk, ios, mgr>>

SpecArchive == ArchiveInit /\ [][ArchiveCall]_vars

IsManifest(filename) == filename[Len(filename)] = "mod.json"

OnlyManifestAtFoo(files) ==
    /\ \E i \in 1..Len(files) : files[i] = <<"Foo", "mod.json">>
    /\ \A i \in 1..Len(files) : IsManifest(files[i]) => files[i] = <<"Foo", "mod.json">>

\* C10: for an archive whose only manifest is Foo/mod.json, detectModArchive returns
\* "Foo", whatever the order and number of the other entries.
DetectSingleWrappingFolder ==
    (ar.st = "done" /\ OnlyManifestAtFoo(ar.files)) => ar.out = <<"Foo">>

\* the manifest is the last of several entries, after entries of another folder
DetectSingleWrappingFolderWitness ==
    /\ ar.st = "done"
    /\ OnlyManifestAtFoo(ar.files)
    /\ Len(ar.files) = MaxEntries
    /\ ar.files[1] = <<"Bar", "x">>
    /\ ar.files[Len(ar.files)] = <<"Foo", "mod.json">>
    /\ ar.out = <<"Foo">>

\* the archive has mod.json directly at its root
HasRootManifest(files) == \E i \in 1..Len(files) : files[i] = <<"mod.json">>

\* C11: for an archive with mod.json at its root, detectModArchive reports the root
\* as the mod folder: a result that doInstallMod does not take for "not found"
\* (an empty name), and not the folder of a mod.json nested deeper.
DetectRootManifest ==
    (ar.st = "done" /\ HasRootManifest(ar.files)) =>
        /\ Size(ar.out) # 0
        /\ \A i \in 1..Len(ar.files) :
              (IsManifest(ar.files[i]) /\ Len(ar.files[i]) > 1) =>
                  ar.out # SubSeq(ar.files[i], 1, Len(ar.files[i]) - 1)

-----------------------------------------------------------------------------
(* The filesystem *)

\* letter case folding of the names the model uses (QString::toLower, Qt::CaseInsensitive)
Lower(t) ==
    CASE t = "Mods" -> "mods"
      [] t = "MODS" -> "mods"
      [] t = "VCMI" -> "vcmi"
      [] t = "A" -> "a"
      [] t = "B" -> "b"
      [] OTHER -> t

Dir == [kind |-> "dir"]
File == [kind |-> "file"]

IsPrefix(p, q) == Len(p) <= Len(q) /\ SubSeq(q, 1, Len(p)) = p

\* the root directory always exists
DirExists(d, p) == p = <<>> \/ (p \in DOMAIN d /\ d[p].kind = "dir")

Parent(p) == SubSeq(p, 1, Len(p) - 1)

\* QDir::dirName(): the last part of the path, empty for the root
DirName(p) == IF p = <<>> THEN "" ELSE p[Len(p)]

\* QString::contains(needle, Qt::CaseInsensitive) on an absolute path
PathContains(p, needle) == \E i \in 1..Len(p) : Lower(p[i]) = needle

\* QDir::removeRecursively(): the directory and everything below it is gone
RemoveRecursively(d, p) == [q \in {q \in DOMAIN d : ~IsPrefix(p, q)} |-> d[q]]

-----------------------------------------------------------------------------
(* SafeRemover: removeModDir *)

removeModDir_containsOnly(d, path, isIos) ==
    IF ~(isIos \/ PathContains(path, "vcmi")) THEN [ret |-> FALSE, disk |-> d]
    ELSE IF ~PathContains(path, "mods") THEN [ret |-> FALSE, disk |-> d]
    ELSE [ret |-> TRUE, disk |-> RemoveRecursively(d, path)]

\* the value returned and the filesystem left by removeModDir(path)
removeModDir(d, path, isIos) ==
    LET up1 == Parent(path)
        up2 == Parent(up1)
        refused == [ret |-> FALSE, disk |-> d]
    IN  IF path = <<>> \/ ~DirExists(d, up1) \/ Lower(DirName(up1)) # "mods"
        THEN refused
        ELSE IF ~isIos /\ (up1 = <<>> \/ ~DirExists(d, up2) \/ Lower(DirName(up2)) # "vcmi")
        THEN refused
        ELSE IF ~isIos /\ ~PathContains(path, "vcmi")
        THEN refused
        ELSE IF ~PathContains(path, "mods")
        THEN refused
        ELSE [ret |-> TRUE, disk |-> RemoveRecursively(d, path)]

(* Harness for removeModDir *)

\* a filesystem with the managed container, a submod container, look-alike
\* containers elsewhere and unrelated user data
RDirs ==
    { <<"home">>, <<"home", "user">>, <<"home", "user", "Documents">>,
      <<"home", "user", "Documents", "x">>,
      <<"home", "vcmi">>, <<"home", "vcmi", "Mods">>,
      <<"home", "vcmi", "Mods", "a">>, <<"home", "vcmi", "Mods", "a", "Mods">>,
      <<"home", "vcmi", "Mods", "a", "Mods", "s">>,
      <<"home", "vcmi", "Mods", "b">>,
      <<"home", "user", "Mods">>, <<"home", "user", "Mods", "x">>,
      <<"home", "VCMI">>, <<"home", "VCMI", "MODS">>, <<"home", "VCMI", "MODS", "x">>,
      <<"Mods">>, <<"Mods", "x">> }

RDisk == [p \in RDirs |-> Dir]

\* the paths handed to removeModDir: every directory, the root, and missing ones
RPaths ==
    RDirs \cup { <<>>, <<"home", "vcmi", "Mods", "c">>, <<"home", "gone", "Mods", "x">> }

RemoveInit ==
    /\ disk = RDisk
    /\ ios \in BOOLEAN
    /\ rm = RIdle
    /\ wv = WIdle
    /\ ar = AIdle
    /\ MgrIdle

RemoveCall(path) ==
    LET r == removeModDir(disk, path, ios)
    IN  /\ rm' = [st |-> "done", path |-> path, ret |-> r.ret, before |-> disk]
        /\ disk' = r.disk
        /\ UNCHANGED <<imp, wv, ar, ios, mgr>>

RemoveNext == \E path \in RPaths : RemoveCall(path)

SpecRemove == RemoveInit /\ [][RemoveNext]_vars

\* the parent of path is named like the packages container and, off iOS, the
\* container's parent is named like the application root
NamedLikeModDir(path, isIos) ==
    /\ Len(path) >= 2
    /\ Lower(path[Len(path) - 1]) = "mods"
    /\ ~isIos => (Len(path) >= 3 /\ Lower(path[Len(path) - 2]) = "vcmi")

\* C6: removeModDir deletes only below a directory named "Mods" whose parent, on
\* desktop platforms, is named "vcmi"; for every other path it returns false and
\* leaves the filesystem as it was.
RemoveOnlyInsideMods ==
    rm.st = "done" =>
        /\ (rm.ret \/ disk # rm.before) => NamedLikeModDir(rm.path, ios)
        /\ ~NamedLikeModDir(rm.path, ios) => (~rm.ret /\ disk = rm.before)
        /\ rm.path = <<"home", "user", "Documents">> => (~rm.ret /\ disk = rm.before)

\* both outcomes happened: user data was refused after a mod directory was deleted
RemoveOnlyInsideModsWitness ==
    /\ rm.st = "done"
    /\ rm.path = <<"home", "user", "Documents">>
    /\ ~rm.ret
    /\ <<"home", "user", "Documents", "x">> \in DOMAIN disk
    /\ <<"home", "vcmi", "Mods", "a">> \notin DOMAIN disk
    /\ <<"home", "vcmi", "Mods", "b">> \in DOMAIN disk

-----------------------------------------------------------------------------
(* The managed directory and the rescan of the installed mods *)

\* CLauncherDirs::get().modsPath()
ModsPath == <<"home", "vcmi", "Mods">>

\* the Mods directory of a data directory that is not named vcmi
DataModsPath == <<"home", "game", "Mods">>

\* the directories the resource loader resolves "Mods/<name>" in
ModsRoots == {ModsPath, DataModsPath}

BaseDisk == [p \in {<<"home">>, <<"home", "vcmi">>, ModsPath} |-> Dir]

Manifest(dep, con, comp) ==
    [kind |-> "manifest", depends |-> dep, conflicts |-> con, compatible |-> comp]

\* the file or directory is created at path, with the directories above it
WritePath(d, path, content) ==
    LET above == {SubSeq(path, 1, i) : i \in 1..(Len(path) - 1)}
        dom == (DOMAIN d) \cup above \cup {path}
    IN  [q \in dom |-> IF q = path THEN content
                       ELSE IF q \in DOMAIN d THEN d[q] ELSE Dir]

\* the directories directly inside directory p
SubDirs(d, p) ==
    {q \in DOMAIN d : Len(q) = Len(p) + 1 /\ IsPrefix(p, q) /\ d[q].kind = "dir"}

HasManifest(d, dir) == (dir \o <<"mod.json">>) \in DOMAIN d

\* the directories of the installed mods: those inside Mods with a mod.json, and
\* those inside the "Mods" directory of such a mod with a mod.json
ModDirs(d) ==
    LET top == {q \in UNION {SubDirs(d, r) : r \in ModsRoots} : HasManifest(d, q)}
        sub == UNION { UNION { {e \in SubDirs(d, m) : HasManifest(d, e)} :
                               m \in {m \in SubDirs(d, q) : Lower(DirName(m)) = "mods"} } :
                       q \in top }
    IN  top \cup sub

\* the name of the mod in directory dir: "<top>" or "<top>.<sub>", in lower case
ModKey(dir) ==
    LET root == CHOOSE r \in ModsRoots : IsPrefix(r, dir)
        rel == SubSeq(dir, Len(root) + 1, Len(dir))
    IN  IF Len(rel) = 1 THEN <<Lower(rel[1])>> ELSE <<Lower(rel[1]), Lower(rel[3])>>

\* the number of files below dir
DirSize(d, dir) == Cardinality({q \in DOMAIN d : IsPrefix(dir, q) /\ d[q].kind # "dir"})

\* the entry loadMods() makes for the mod in directory dir
ModEntry(d, dir) ==
    LET json == d[dir \o <<"mod.json">>]
    IN  IF json.kind = "manifest"
        THEN [depends |-> json.depends, conflicts |-> json.conflicts,
              compatible |-> json.compatible, localSizeBytes |-> DirSize(d, dir)]
        ELSE [depends |-> <<>>, conflicts |-> <<>>,
              compatible |-> TRUE, localSizeBytes |-> DirSize(d, dir)]

\* loadMods(): localMods rebuilt from the filesystem d
loadMods(d) ==
    LET dirs == ModDirs(d)
        keys == {ModKey(dir) : dir \in dirs}
    IN  [k \in keys |-> ModEntry(d, CHOOSE dir \in dirs : ModKey(dir) = k)]

-----------------------------------------------------------------------------
(* Mod names *)

\* QString::contains('.')
isSubmod(modname) == Len(modname) > 1

\* QString::toLower() of a mod name
LowerName(modname) == [i \in DOMAIN modname |-> Lower(modname[i])]

\* path.replace(".", "/mods/"): the parts of the name with "mods" between them
RECURSIVE DotsToMods(_)
DotsToMods(modname) ==
    IF Len(modname) <= 1 THEN modname
    ELSE <<Head(modname), "mods">> \o DotsToMods(Tail(modname))

\* the name as one path component
NameStr(modname) ==
    CASE modname = <<"a", "s">> -> "a.s"
      [] modname = <<"b", "s">> -> "b.s"
      [] OTHER -> modname[1]

Range(q) == {q[i] : i \in DOMAIN q}

-----------------------------------------------------------------------------
(* The mod list (CModList / CModEntry) *)

\* the mods some repository offers
Repo == { <<"a">>, <<"b">>, <<"c">> }

\* every name a mod can be known under, in the order getModList() lists them
AllKeys ==
    << <<"a">>, <<"a", "s">>, <<"b">>, <<"b", "s">>, <<"b-1">>, <<"c">>, <<"w">> >>

KnownMods == (DOMAIN localMods) \cup Repo

getModList ==
    LET known(k) == k \in KnownMods
    IN  SelectSeq(AllKeys, known)

hasMod(modname) == LowerName(modname) \in KnownMods

isInstalled(modname) == LowerName(modname) \in DOMAIN localMods

isAvailable(modname) == LowerName(modname) \in Repo

\* the mod's entry of the activation view says active
isEnabled(modname) ==
    /\ isInstalled(modname)
    /\ ToBool(ReadPath(MapValue(modSettings, "activeMods"),
                       DotsToMods(LowerName(modname)) \o <<"active">>))

isDisabled(modname) == isInstalled(modname) /\ ~isEnabled(modname)

isCompatible(modname) ==
    isInstalled(modname) => localMods[LowerName(modname)].compatible

\* getValue("depends").toStringList() / getValue("conflicts").toStringList()
depends(modname) ==
    IF isInstalled(modname) THEN localMods[LowerName(modname)].depends ELSE <<>>

conflicts(modname) ==
    IF isInstalled(modname) THEN localMods[LowerName(modname)].conflicts ELSE <<>>

-----------------------------------------------------------------------------
(* DependencyValidator: each validator yields <<>> or the one error it adds *)

Err_twice(modname, msg, arg) ==
    <<[mod |-> modname, msg |-> msg, arg |-> arg], [mod |-> modname, msg |-> msg, arg |-> arg]>>

\* addError(modname, message): the entry "<modname>: <message>", %1 filled with arg
Err(modname, msg, arg) == <<[mod |-> modname, msg |-> msg, arg |-> arg]>>

canInstallMod(modname) ==
    IF isSubmod(modname) THEN Err(modname, "Can not install submod", <<>>)
    ELSE IF isInstalled(modname) THEN Err(modname, "Mod is already installed", <<>>)
    ELSE IF ~isAvailable(modname) THEN Err(modname, "Mod is not available", <<>>)
    ELSE <<>>

canUninstallMod_noSubmodRule(modname) ==
    IF ~isInstalled(modname) THEN Err(modname, "Mod is not installed", <<>>)
    ELSE <<>>

canUninstallMod(modname) ==
    IF isSubmod(modname) THEN Err(modname, "Can not uninstall submod", <<>>)
    ELSE IF ~isInstalled(modname) THEN Err(modname, "Mod is not installed", <<>>)
    ELSE <<>>

DependsError_skip(modname, list) == <<>>

RECURSIVE DependsError_missingOnly(_, _)
DependsError_missingOnly(modname, list) ==
    IF list = <<>> THEN <<>>
    ELSE LET modEntry == Head(list)
         IN  IF ~hasMod(modEntry)
             THEN Err(modname, "Required mod %1 is missing", modEntry)
             ELSE DependsError_missingOnly(modname, Tail(list))

RECURSIVE DependsError_notEnabledFirst(_, _)
DependsError_notEnabledFirst(modname, list) ==
    IF list = <<>> THEN <<>>
    ELSE LET modEntry == Head(list)
         IN  IF ~isEnabled(modEntry)
             THEN Err(modname, "Required mod %1 is not enabled", modEntry)
             ELSE IF ~hasMod(modEntry)
             THEN Err(modname, "Required mod %1 is missing", modEntry)
             ELSE DependsError_notEnabledFirst(modname, Tail(list))

\* the loop over the mod's "depends"
RECURSIVE DependsError(_, _)
DependsError(modname, list) ==
    IF list = <<>> THEN <<>>
    ELSE LET modEntry == Head(list)
         IN  IF ~hasMod(modEntry)
             THEN Err(modname, "Required mod %1 is missing", modEntry)
             ELSE IF ~isEnabled(modEntry)
             THEN Err(modname, "Required mod %1 is not enabled", modEntry)
             ELSE DependsError(modname, Tail(list))

ReverseConflictError_skip(modname, list) == <<>>

\* the loop over all mods: an enabled mod has this one as conflict
RECURSIVE ReverseConflictError(_, _)
ReverseConflictError(modname, list) ==
    IF list = <<>> THEN <<>>
    ELSE LET modEntry == Head(list)
         IN  IF isEnabled(modEntry) /\ modname \in Range(conflicts(modEntry))
             THEN Err(modname, "This mod conflicts with %1", modEntry)
             ELSE ReverseConflictError(modname, Tail(list))

ConflictError_skip(modname, list) == <<>>

\* the loop over the mod's "conflicts"
RECURSIVE ConflictError(_, _)
ConflictError(modname, list) ==
    IF list = <<>> THEN <<>>
    ELSE LET modEntry == Head(list)
         IN  IF hasMod(modEntry) /\ isEnabled(modEntry)
             THEN Err(modname, "This mod conflicts with %1", modEntry)
             ELSE ConflictError(modname, Tail(list))

canEnableMod_noReverseScan(modname) ==
    IF isEnabled(modname) THEN Err(modname, "Mod is already enabled", <<>>)
    ELSE IF ~isInstalled(modname) THEN Err(modname, "Mod must be installed first", <<>>)
    ELSE IF ~isCompatible(modname) THEN Err(modname, "Mod is not compatible, please update VCMI and checkout latest mod revisions", <<>>)
    ELSE IF DependsError(modname, depends(modname)) # <<>>
    THEN DependsError(modname, depends(modname))
    ELSE ConflictError(modname, conflicts(modname))

canEnableMod(modname) ==
    IF isEnabled(modname) THEN Err(modname, "Mod is already enabled", <<>>)
    ELSE IF ~isInstalled(modname) THEN Err(modname, "Mod must be installed first", <<>>)
    ELSE IF ~isCompatible(modname) THEN Err(modname, "Mod is not compatible, please update VCMI and checkout latest mod revisions", <<>>)
    ELSE IF DependsError(modname, depends(modname)) # <<>>
    THEN DependsError(modname, depends(modname))
    ELSE IF ReverseConflictError(modname, getModList) # <<>>
    THEN ReverseConflictError(modname, getModList)
    ELSE ConflictError(modname, conflicts(modname))

\* the loop over all mods: an enabled mod needs this one
RECURSIVE DependentError(_, _)
DependentError(modname, list) ==
    IF list = <<>> THEN <<>>
    ELSE LET modEntry == Head(list)
         IN  IF modname \in Range(depends(modEntry)) /\ isEnabled(modEntry)
             THEN Err(modname, "This mod is needed to run %1", modEntry)
             ELSE DependentError(modname, Tail(list))

canDisableMod_noDependentScan(modname) ==
    IF isDisabled(modname) THEN Err(modname, "Mod is already disabled", <<>>)
    ELSE IF ~isInstalled(modname) THEN Err(modname, "Mod must be installed first", <<>>)
    ELSE <<>>

canDisableMod(modname) ==
    IF isDisabled(modname) THEN Err(modname, "Mod is already disabled", <<>>)
    ELSE IF ~isInstalled(modname) THEN Err(modname, "Mod must be installed first", <<>>)
    ELSE DependentError(modname, getModList)

\* the verdict of the validator of operation op on modname, in the current state
Verdict(op, modname) ==
    CASE op = "install"   -> canInstallMod(modname)
      [] op = "uninstall" -> canUninstallMod(modname)
      [] op = "enable"    -> canEnableMod(modname)
      [] op = "disable"   -> canDisableMod(modname)

-----------------------------------------------------------------------------
(* PackageManager: enable / disable / getErrors *)

\* the dotted name used as one key below "activeMods"
doEnableMod_flat(mod, on) ==
    LET path == <<"", "activeMods", NameStr(mod), "active">>
    IN  ToMap(writeValue(path, modSettings, BoolV(on)))

\* the activation document doEnableMod leaves in memory and in modSettings.json
doEnableMod(mod, on) ==
    LET path == <<"", "activeMods">> \o DotsToMods(mod) \o <<"active">>
    IN  ToMap(writeValue(path, modSettings, BoolV(on)))

\* a request reaches the manager from the caller, or from the event loop that the
\* polling loop of the innermost install in flight services while it waits
Dispatching ==
    installs # <<>> => (reentrant /\ installs[Len(installs)].status = "running")

CanDispatch == Len(recentErrors) < MaxErrors /\ Dispatching

Returned(op, modname, ret, by) ==
    [op |-> op, name |-> modname, ret |-> ret, by |-> by, nested |-> installs # <<>>]

EnableMod_ignoreVerdict(modname) ==
    /\ CanDispatch
    /\ LET verdict == canEnableMod(modname)
       IN  /\ recentErrors' = recentErrors \o verdict
           /\ modSettings' = doEnableMod(modname, TRUE)
           /\ settingsFile' = modSettings'
           /\ last' = IF verdict # <<>>
                      THEN Returned("enable", modname, FALSE, "validator")
                      ELSE Returned("enable", modname, TRUE, "ok")
    /\ UNCHANGED <<imp, wv, ar, rm, disk, ios, localMods, installs, reentrant, en>>

\* enableMod(modname): canEnableMod(modname) && doEnableMod(modname, true)
EnableMod(modname) ==
    /\ CanDispatch
    /\ LET verdict == canEnableMod(modname)
       IN  IF verdict # <<>>
           THEN /\ recentErrors' = recentErrors \o verdict
                /\ last' = Returned("enable", modname, FALSE, "validator")
                /\ UNCHANGED <<modSettings, settingsFile>>
           ELSE /\ modSettings' = doEnableMod(modname, TRUE)
                /\ settingsFile' = modSettings'
                /\ last' = Returned("enable", modname, TRUE, "ok")
                /\ UNCHANGED recentErrors
    /\ UNCHANGED <<imp, wv, ar, rm, disk, ios, localMods, installs, reentrant, en>>

\* disableMod(modname): canDisableMod(modname) && doEnableMod(modname, false)
DisableMod(modname) ==
    /\ CanDispatch
    /\ LET verdict == canDisableMod(modname)
       IN  IF verdict # <<>>
           THEN /\ recentErrors' = recentErrors \o verdict
                /\ last' = Returned("disable", modname, FALSE, "validator")
                /\ UNCHANGED <<modSettings, settingsFile>>
           ELSE /\ modSettings' = doEnableMod(modname, FALSE)
                /\ settingsFile' = modSettings'
                /\ last' = Returned("disable", modname, TRUE, "ok")
                /\ UNCHANGED recentErrors
    /\ UNCHANGED <<imp, wv, ar, rm, disk, ios, localMods, installs, reentrant, en>>

\* QString::arg(a): every occurrence of the lowest-numbered place marker becomes a
Arg(s, a) ==
    LET lowest == IF \E i \in DOMAIN s : s[i] = "%1" THEN "%1" ELSE "%2"
    IN  [i \in DOMAIN s |-> IF s[i] = lowest THEN a ELSE s[i]]

\* the string addError stores for a log entry: QString("%1: %2").arg(modname).arg(message),
\* the message kept as its text and the argument filled into it
ErrorText(e) ==
    Arg(Arg(<<"%1", ": ", "%2">>, NameStr(e.mod)), [text |-> e.msg, arg |-> e.arg])

GetErrors_noClear ==
    /\ Dispatching
    /\ recentErrors' = recentErrors
    /\ last' = [op |-> "getErrors",
                ret |-> [i \in DOMAIN recentErrors |-> ErrorText(recentErrors[i])],
                nested |-> installs # <<>>]
    /\ UNCHANGED <<imp, wv, ar, rm, disk, ios, localMods, modSettings, settingsFile, installs, reentrant, en>>

\* getErrors(): hands out the log and clears it
GetErrors ==
    /\ Dispatching
    /\ recentErrors' = <<>>
    /\ last' = [op |-> "getErrors",
                ret |-> [i \in DOMAIN recentErrors |-> ErrorText(recentErrors[i])],
                nested |-> installs # <<>>]
    /\ UNCHANGED <<imp, wv, ar, rm, disk, ios, localMods, modSettings, settingsFile, installs, reentrant, en>>

-----------------------------------------------------------------------------
(* PackageManager: install / uninstall *)

ManifestA == Manifest(<< <<"b">> >>, <<>>, TRUE)
ManifestB == Manifest(<<>>, <<>>, TRUE)
ManifestS == Manifest(<<>>, <<>>, TRUE)

Entry(name, content) == [name |-> name, content |-> content]

\* the archive files install is called with: what ZipArchive::listFiles gives for
\* each, in order, and what each entry holds
ArchiveFiles ==
    [ a_zip    |-> << Entry(<<"a", "mod.json">>, ManifestA),
                      Entry(<<"a", "Mods", "s", "mod.json">>, ManifestS) >>,
      b_zip    |-> << Entry(<<"b-1", "mod.json">>, ManifestB) >>,
      wb_zip   |-> << Entry(<<"w", "b", "mod.json">>, ManifestB),
                      Entry(<<"w", "x">>, File) >>,
      root_zip |-> << Entry(<<"mod.json">>, ManifestB), Entry(<<"x">>, File) >>,
      bad_zip  |-> << Entry(<<"x">>, File) >> ]

\* the archive paths requests name; "none_zip" is no file
ArchivePaths == (DOMAIN ArchiveFiles) \cup {"none_zip"}

EntryNames(files) == [i \in DOMAIN files |-> files[i].name]

\* ZipArchive::extract writes one entry: the file, or the directory of a name ending in '/'
ExtractEntry(d, destDir, entry) ==
    IF entry.name[Len(entry.name)] = ""
    THEN WritePath(d, destDir \o SubSeq(entry.name, 1, Len(entry.name) - 1), Dir)
    ELSE WritePath(d, destDir \o entry.name, entry.content)

\* QFile::rename moves what is at from, with all below it, to to
Rename(d, from, to) ==
    LET moved(q) == IF IsPrefix(from, q) THEN to \o SubSeq(q, Len(from) + 1, Len(q)) ELSE q
    IN  [q \in {moved(x) : x \in DOMAIN d} |-> d[CHOOSE x \in DOMAIN d : moved(x) = q]]

\* QFile::rename cannot succeed without a source or onto an existing path; otherwise
\* the operating system decides
RenameOutcomes(d, from, to) ==
    IF from \notin DOMAIN d \/ to \in DOMAIN d THEN {FALSE} ELSE {TRUE, FALSE}

Top == installs[Len(installs)]
Pop == SubSeq(installs, 1, Len(installs) - 1)

ArchiveExists_always(archivePath) == TRUE

\* QFile(archivePath).exists()
ArchiveExists(archivePath) == archivePath \in DOMAIN ArchiveFiles

\* ZipArchive::listFiles(archivePath); no entries for a file that cannot be opened
ListFiles(archivePath) ==
    IF archivePath \in DOMAIN ArchiveFiles THEN ArchiveFiles[archivePath] ELSE <<>>

\* installMod(modname, archivePath) up to the launch of the extraction
InstallMod(modname, archivePath) ==
    /\ CanDispatch
    /\ Len(installs) < MaxInstalls
    /\ LET verdict == canInstallMod(modname)
           filesToExtract == ListFiles(archivePath)
           modDirName == detectModArchive(EntryNames(filesToExtract))
           reject(err, by) ==
               /\ recentErrors' = recentErrors \o err
               /\ last' = [op |-> "install", name |-> modname, ret |-> FALSE, by |-> by,
                           nested |-> installs # <<>>, archive |-> archivePath,
                           renamed |-> FALSE]
               /\ UNCHANGED installs
       IN  IF verdict # <<>>
           THEN reject(verdict, "validator")
           ELSE IF ~ArchiveExists(archivePath)
           THEN reject(Err(modname, "Mod archive is missing", <<>>), "io")
           ELSE IF modname \in DOMAIN localMods
           THEN reject(Err(modname, "Mod with such name is already installed", <<>>), "io")
           ELSE IF Size(modDirName) = 0
           THEN reject(Err(modname, "Mod archive is invalid or corrupted", <<>>), "io")
           ELSE /\ installs' = Append(installs,
                       [modname |-> modname, archivePath |-> archivePath,
                        modDirName |-> modDirName, filesToExtract |-> filesToExtract,
                        extracted |-> 0, status |-> "running",
                        nested |-> installs # <<>>, signals |-> <<>>, serviced |-> 0])
                /\ UNCHANGED <<recentErrors, last>>
    /\ UNCHANGED <<imp, wv, ar, rm, disk, ios, localMods, modSettings, settingsFile, reentrant, en>>

\* the background task extracts the next entry; after the last one it reports success
ExtractStep(i) ==
    /\ i \in DOMAIN installs
    /\ installs[i].status = "running"
    /\ LET f == installs[i]
           n == f.extracted + 1
       IN  /\ disk' = ExtractEntry(disk, ModsPath, f.filesToExtract[n])
           /\ installs' = [installs EXCEPT ![i].extracted = n,
                               ![i].status = IF n = Len(f.filesToExtract)
                                             THEN "ok" ELSE "running"]
    /\ UNCHANGED <<imp, wv, ar, rm, ios, localMods, modSettings, settingsFile, recentErrors,
                   last, reentrant, en>>

\* the background task fails on the next entry and reports failure
ExtractFail(i) ==
    /\ i \in DOMAIN installs
    /\ installs[i].status = "running"
    /\ installs' = [installs EXCEPT ![i].status = "failed"]
    /\ UNCHANGED <<imp, wv, ar, rm, disk, ios, localMods, modSettings, settingsFile,
                   recentErrors, last, reentrant, en>>

Ready_successOnly(f) == f.status = "ok"

\* futureExtract.wait_for(...) == std::future_status::ready
Ready(f) == f.status # "running"

\* doInstallMod after the polling loop: the extraction of the innermost call is over
InstallFinish ==
    /\ installs # <<>>
    /\ Ready(Top)
    /\ LET f == Top
           from == ModsPath \o f.modDirName
           to == ModsPath \o <<NameStr(f.modname)>>
           upperLevel == Section(f.modDirName, 0, 0)
       IN  IF f.status = "failed"
           THEN /\ disk' = removeModDir(disk, from, ios).disk
                /\ recentErrors' =
                       recentErrors \o Err(f.modname, "Failed to extract mod data", <<>>)
                /\ last' = [op |-> "install", name |-> f.modname, ret |-> FALSE,
                            by |-> "io", nested |-> f.nested,
                            archive |-> f.archivePath, renamed |-> FALSE]
                /\ UNCHANGED localMods
           ELSE \E rc \in RenameOutcomes(disk, from, to) :
                  LET renamed == IF rc THEN Rename(disk, from, to) ELSE disk
                      cleaned == IF upperLevel # f.modDirName
                                 THEN removeModDir(renamed, ModsPath \o upperLevel, ios).disk
                                 ELSE renamed
                  IN  /\ disk' = cleaned
                      /\ localMods' = loadMods(cleaned)
                      /\ last' = [op |-> "install", name |-> f.modname, ret |-> TRUE,
                                  by |-> "ok", nested |-> f.nested,
                                  archive |-> f.archivePath, renamed |-> rc]
                      /\ UNCHANGED recentErrors
    /\ installs' = Pop
    /\ UNCHANGED <<imp, wv, ar, rm, ios, modSettings, settingsFile, reentrant, en>>

\* the directories the resource "Mods/<modname>" resolves to, case-insensitively
ModDirOf(d, modname) ==
    {q \in UNION {SubDirs(d, r) : r \in ModsRoots} :
        Lower(DirName(q)) = Lower(NameStr(modname))}

UninstallMod_deleteAnyway(modname) ==
    /\ CanDispatch
    /\ LET verdict == canUninstallMod(modname)
           found == ModDirOf(disk, modname)
           modDir == CHOOSE q \in found : TRUE
           removed == removeModDir(disk, modDir, ios)
           reject(err, by) ==
               /\ recentErrors' = recentErrors \o err
               /\ last' = Returned("uninstall", modname, FALSE, by)
               /\ UNCHANGED <<disk, localMods>>
       IN  IF verdict # <<>>
           THEN reject(verdict, "validator")
           ELSE IF found = {}
           THEN reject(Err(modname, "Data with this mod was not found", <<>>), "io")
           ELSE IF ~removed.ret
           THEN /\ recentErrors' = recentErrors \o Err(modname,
                        "Mod is located in protected directory, please remove it manually:\n%1",
                        modDir)
                /\ last' = Returned("uninstall", modname, FALSE, "guard")
                /\ disk' = RemoveRecursively(disk, modDir)
                /\ localMods' = loadMods(disk')
           ELSE /\ disk' = removed.disk
                /\ localMods' = loadMods(removed.disk)
                /\ last' = Returned("uninstall", modname, TRUE, "ok")
                /\ UNCHANGED recentErrors
    /\ UNCHANGED <<imp, wv, ar, rm, ios, modSettings, settingsFile, installs, reentrant, en>>

UninstallMod_noReload(modname) ==
    /\ CanDispatch
    /\ LET verdict == canUninstallMod(modname)
           found == ModDirOf(disk, modname)
           modDir == CHOOSE q \in found : TRUE
           removed == removeModDir(disk, modDir, ios)
           reject(err, by) ==
               /\ recentErrors' = recentErrors \o err
               /\ last' = Returned("uninstall", modname, FALSE, by)
               /\ UNCHANGED <<disk, localMods>>
       IN  IF verdict # <<>>
           THEN reject(verdict, "validator")
           ELSE IF found = {}
           THEN reject(Err(modname, "Data with this mod was not found", <<>>), "io")
           ELSE IF ~removed.ret
           THEN reject(Err(modname,
                           "Mod is located in protected directory, please remove it manually:\n%1",
                           modDir), "guard")
           ELSE /\ disk' = removed.disk
                /\ last' = Returned("uninstall", modname, TRUE, "ok")
                /\ UNCHANGED <<recentErrors, localMods>>
    /\ UNCHANGED <<imp, wv, ar, rm, ios, modSettings, settingsFile, installs, reentrant, en>>

\* the flag of the mod cleared along with its directory
UninstallMod_resetFlag(modname) ==
    /\ CanDispatch
    /\ LET verdict == canUninstallMod(modname)
           found == ModDirOf(disk, modname)
           modDir == CHOOSE q \in found : TRUE
           removed == removeModDir(disk, modDir, ios)
           reject(err, by) ==
               /\ recentErrors' = recentErrors \o err
               /\ last' = Returned("uninstall", modname, FALSE, by)
               /\ UNCHANGED <<disk, localMods, modSettings, settingsFile>>
       IN  IF verdict # <<>>
           THEN reject(verdict, "validator")
           ELSE IF found = {}
           THEN reject(Err(modname, "Data with this mod was not found", <<>>), "io")
           ELSE IF ~removed.ret
           THEN reject(Err(modname,
                           "Mod is located in protected directory, please remove it manually:\n%1",
                           modDir), "guard")
           ELSE /\ disk' = removed.disk
                /\ localMods' = loadMods(removed.disk)
                /\ modSettings' = doEnableMod(modname, FALSE)
                /\ settingsFile' = modSettings'
                /\ last' = Returned("uninstall", modname, TRUE, "ok")
                /\ UNCHANGED recentErrors
    /\ UNCHANGED <<imp, wv, ar, rm, ios, installs, reentrant, en>>

\* the entry of the mod taken out of localMods instead of the rescan
UninstallMod_patchList(modname) ==
    /\ CanDispatch
    /\ LET verdict == canUninstallMod(modname)
           found == ModDirOf(disk, modname)
           modDir == CHOOSE q \in found : TRUE
           removed == removeModDir(disk, modDir, ios)
           reject(err, by) ==
               /\ recentErrors' = recentErrors \o err
               /\ last' = Returned("uninstall", modname, FALSE, by)
               /\ UNCHANGED <<disk, localMods>>
       IN  IF verdict # <<>>
           THEN reject(verdict, "validator")
           ELSE IF found = {}
           THEN reject(Err(modname, "Data with this mod was not found", <<>>), "io")
           ELSE IF ~removed.ret
           THEN reject(Err(modname,
                           "Mod is located in protected directory, please remove it manually:\n%1",
                           modDir), "guard")
           ELSE /\ disk' = removed.disk
                /\ localMods' = [k \in (DOMAIN localMods) \ {LowerName(modname)} |->
                                    localMods[k]]
                /\ last' = Returned("uninstall", modname, TRUE, "ok")
                /\ UNCHANGED recentErrors
    /\ UNCHANGED <<imp, wv, ar, rm, ios, modSettings, settingsFile, installs, reentrant, en>>

\* uninstallMod(modname): canUninstallMod(modname) && doUninstallMod(modname)
UninstallMod(modname) ==
    /\ CanDispatch
    /\ LET verdict == canUninstallMod(modname)
           found == ModDirOf(disk, modname)
           modDir == CHOOSE q \in found : TRUE
           removed == removeModDir(disk, modDir, ios)
           reject(err, by) ==
               /\ recentErrors' = recentErrors \o err
               /\ last' = Returned("uninstall", modname, FALSE, by)
               /\ UNCHANGED <<disk, localMods>>
       IN  IF verdict # <<>>
           THEN reject(verdict, "validator")
           ELSE IF found = {}
           THEN reject(Err(modname, "Data with this mod was not found", <<>>), "io")
           ELSE IF ~removed.ret
           THEN reject(Err(modname,
                           "Mod is located in protected directory, please remove it manually:\n%1",
                           modDir), "guard")
           ELSE /\ disk' = removed.disk
                /\ localMods' = loadMods(removed.disk)
                /\ last' = Returned("uninstall", modname, TRUE, "ok")
                /\ UNCHANGED recentErrors
    /\ UNCHANGED <<imp, wv, ar, rm, ios, modSettings, settingsFile, installs, reentrant, en>>

\* the names requests are made with
Names == { <<"a">>, <<"b">>, <<"a", "s">> }

TopNames == { <<"a">>, <<"b">> }

\* the install requests made: each mod from its own archive, b also from an
\* archive that wraps it in an outer folder, from the archive of another mod and
\* from archives that are missing or hold no mod
InstallRequests ==
    { << <<"a">>, "a_zip" >>, << <<"b">>, "b_zip" >>, << <<"b">>, "wb_zip" >>,
      << <<"b">>, "a_zip" >>, << <<"b">>, "root_zip" >>, << <<"b">>, "bad_zip" >>,
      << <<"b">>, "none_zip" >>, << <<"a", "s">>, "a_zip" >> }

\* CModManager::CModManager on a fresh profile: loadMods(); loadModSettings()
Init ==
    /\ disk = BaseDisk
    /\ ios = FALSE
    /\ localMods = loadMods(BaseDisk)
    /\ settingsFile = EmptyMap
    /\ modSettings = settingsFile
    /\ recentErrors = <<>>
    /\ installs = <<>>
    /\ last = NoCall
    /\ reentrant = FALSE
    /\ en = EIdle
    /\ imp = ImpIdle
    /\ wv = WIdle
    /\ ar = AIdle
    /\ rm = RIdle

Next ==
    \/ \E req \in InstallRequests : InstallMod(req[1], req[2])
    \/ \E modname \in Names : UninstallMod(modname)
    \/ \E modname \in TopNames : EnableMod(modname)
    \/ \E modname \in TopNames : DisableMod(modname)
    \/ GetErrors
    \/ \E i \in 1..MaxInstalls : ExtractStep(i)
    \/ \E i \in 1..MaxInstalls : ExtractFail(i)
    \/ InstallFinish

\* the caller makes one request at a time and waits for install to return
Spec == Init /\ [][Next]_vars

\* as Init, with requests also arriving through processEvents() during an install
InitReentrant ==
    /\ disk = BaseDisk
    /\ ios = FALSE
    /\ localMods = loadMods(BaseDisk)
    /\ settingsFile = EmptyMap
    /\ modSettings = settingsFile
    /\ recentErrors = <<>>
    /\ installs = <<>>
    /\ last = NoCall
    /\ reentrant = TRUE
    /\ en = EIdle
    /\ imp = ImpIdle
    /\ wv = WIdle
    /\ ar = AIdle
    /\ rm = RIdle

SpecReentrant == InitReentrant /\ [][Next]_vars

-----------------------------------------------------------------------------
(* Enable / disable over a family of package graphs *)

\* the manifests the mods a, b and c are installed with
GraphA ==
    {Manifest(dep, con, TRUE) :
        dep \in {<<>>, << <<"b">> >>, << <<"z">> >>, << <<"b">>, <<"c">> >>},
        con \in {<<>>, << <<"c">> >>}}

GraphB == {Manifest(<<>>, con, TRUE) : con \in {<<>>, << <<"a">> >>}}

GraphC == {Manifest(dep, <<>>, comp) : dep \in {<<>>, << <<"a">> >>}, comp \in BOOLEAN}

\* a is installed, b and c are installed or only offered by the repository
GraphDisks ==
    {WritePath(db, ModsPath \o <<"a", "mod.json">>, ma) :
        ma \in GraphA,
        db \in ({BaseDisk} \cup {WritePath(BaseDisk, ModsPath \o <<"b", "mod.json">>, mb) :
                                     mb \in GraphB})}
    \cup
    {WritePath(WritePath(WritePath(BaseDisk, ModsPath \o <<"a", "mod.json">>, ma),
                         ModsPath \o <<"b", "mod.json">>, mb),
               ModsPath \o <<"c", "mod.json">>, mc) :
        ma \in GraphA, mb \in GraphB, mc \in GraphC}

\* activation documents: a flag, or no entry, for each of a, b and c
GraphSettings ==
    {IF m = EmptyMap THEN EmptyMap ELSE [activeMods |-> MapV(m)] :
        m \in MapsOver({"a", "b", "c"}, {MapV([active |-> BoolV(TRUE)])})}

GraphNames == { <<"a">>, <<"b">>, <<"c">> }

GraphInit ==
    /\ disk \in GraphDisks
    /\ ios = FALSE
    /\ localMods = loadMods(disk)
    /\ settingsFile \in GraphSettings
    /\ modSettings = settingsFile
    /\ recentErrors = <<>>
    /\ installs = <<>>
    /\ last = NoCall
    /\ reentrant = FALSE
    /\ en = EIdle
    /\ imp = ImpIdle
    /\ wv = WIdle
    /\ ar = AIdle
    /\ rm = RIdle

GraphNext ==
    \/ \E modname \in GraphNames : EnableMod(modname)
    \/ \E modname \in GraphNames : DisableMod(modname)
    \/ GetErrors

SpecGraph == GraphInit /\ [][GraphNext]_vars

-----------------------------------------------------------------------------
(* Uninstall of mods found in either data directory *)

\* where a mod is found: nowhere, in the user's Mods, in the other data directory
Placed(d, root, name, manifest) ==
    IF root = <<>> THEN d ELSE WritePath(d, root \o <<name, "mod.json">>, manifest)

UninstallDisks ==
    {Placed(Placed(BaseDisk, ra, "a", ManifestA), rb, "b", ManifestB) :
        ra \in ModsRoots \cup {<<>>}, rb \in ModsRoots \cup {<<>>}}

UninstallInit ==
    /\ disk \in UninstallDisks
    /\ ios \in BOOLEAN
    /\ localMods = loadMods(disk)
    /\ settingsFile \in GraphSettings
    /\ modSettings = settingsFile
    /\ recentErrors = <<>>
    /\ installs = <<>>
    /\ last = NoCall
    /\ reentrant = FALSE
    /\ en = EIdle
    /\ imp = ImpIdle
    /\ wv = WIdle
    /\ ar = AIdle
    /\ rm = RIdle

UninstallNext ==
    \/ \E modname \in Names : UninstallMod(modname)
    \/ GetErrors

SpecUninstall == UninstallInit /\ [][UninstallNext]_vars

-----------------------------------------------------------------------------
(* loadMods() called on its own, with the user changing the Mods directory *)

\* the user deletes the directory of a mod, outside the manager
ExternalRemove(name) ==
    /\ DirExists(disk, ModsPath \o <<name>>)
    /\ disk' = RemoveRecursively(disk, ModsPath \o <<name>>)
    /\ last' = [op |-> "external"]
    /\ UNCHANGED <<imp, wv, ar, rm, ios, localMods, modSettings, settingsFile, recentErrors,
                   installs, reentrant, en>>

\* the user unpacks a mod into Mods, outside the manager
ExternalAdd(name, manifest) ==
    /\ ModDirOf(disk, <<name>>) = {}
    /\ disk' = WritePath(disk, ModsPath \o <<name, "mod.json">>, manifest)
    /\ last' = [op |-> "external"]
    /\ UNCHANGED <<imp, wv, ar, rm, ios, localMods, modSettings, settingsFile, recentErrors,
                   installs, reentrant, en>>

LoadMods_keepOld ==
    /\ localMods' = [k \in DOMAIN localMods \cup DOMAIN loadMods(disk) |->
                        IF k \in DOMAIN localMods THEN localMods[k] ELSE loadMods(disk)[k]]
    /\ last' = [op |-> "loadMods", before |-> localMods]
    /\ UNCHANGED <<imp, wv, ar, rm, disk, ios, modSettings, settingsFile, recentErrors,
                   installs, reentrant, en>>

\* loadMods(): localMods.clear(), then one entry for each mod found
LoadMods ==
    /\ localMods' = loadMods(disk)
    /\ last' = [op |-> "loadMods", before |-> localMods]
    /\ UNCHANGED <<imp, wv, ar, rm, disk, ios, modSettings, settingsFile, recentErrors,
                   installs, reentrant, en>>

ReloadInit ==
    /\ disk \in UninstallDisks
    /\ ios = FALSE
    /\ localMods = loadMods(disk)
    /\ settingsFile = EmptyMap
    /\ modSettings = settingsFile
    /\ recentErrors = <<>>
    /\ installs = <<>>
    /\ last = NoCall
    /\ reentrant = FALSE
    /\ en = EIdle
    /\ imp = ImpIdle
    /\ wv = WIdle
    /\ ar = AIdle
    /\ rm = RIdle

ReloadNext ==
    \/ \E name \in {"a", "b"} : ExternalRemove(name)
    \/ \E name \in {"a", "b"} : \E manifest \in {ManifestA, ManifestB} :
          ExternalAdd(name, manifest)
    \/ LoadMods

SpecReload == ReloadInit /\ [][ReloadNext]_vars

-----------------------------------------------------------------------------
(* The error log: addError and getErrors on their own *)

\* the messages addError is called with
LogMessages == {"Mod is already installed", "Mod is not installed"}

\* addError(modname, message)
AddError(modname, message) ==
    /\ Len(recentErrors) < MaxLog
    /\ recentErrors' = recentErrors \o Err(modname, message, <<>>)
    /\ last' = [op |-> "addError", name |-> modname, msg |-> message, ret |-> FALSE]
    /\ UNCHANGED <<imp, wv, ar, rm, disk, ios, localMods, modSettings, settingsFile,
                   installs, reentrant, en>>

LogNext ==
    \/ \E modname \in TopNames : \E message \in LogMessages : AddError(modname, message)
    \/ GetErrors

SpecLog == Init /\ [][LogNext]_vars

-----------------------------------------------------------------------------
(* The validators called on their own over a family of package graphs *)

\* the graphs of GraphDisks, and those with a alone and its submod a.s installed
VerdictDisks ==
    GraphDisks
    \cup {WritePath(WritePath(BaseDisk, ModsPath \o <<"a", "mod.json">>, ma),
                    ModsPath \o <<"a", "Mods", "s", "mod.json">>, ManifestS) :
              ma \in GraphA}

\* the names the validators are called with; no mod is named z
VerdictNames == { <<"a">>, <<"b">>, <<"c">>, <<"a", "s">>, <<"z">> }

VerdictInit ==
    /\ disk \in VerdictDisks
    /\ ios = FALSE
    /\ localMods = loadMods(disk)
    /\ settingsFile \in GraphSettings
    /\ modSettings = settingsFile
    /\ recentErrors = <<>>
    /\ installs = <<>>
    /\ last = NoCall
    /\ reentrant = FALSE
    /\ en = EIdle
    /\ imp = ImpIdle
    /\ wv = WIdle
    /\ ar = AIdle
    /\ rm = RIdle

\* canInstallMod / canUninstallMod / canEnableMod / canDisableMod (modname)
ValidatorCall(op, modname) ==
    /\ Len(recentErrors) < MaxErrors
    /\ recentErrors' = recentErrors \o Verdict(op, modname)
    /\ last' = [op |-> "validate", rule |-> op, name |-> modname,
                ret |-> Verdict(op, modname) = <<>>]
    /\ UNCHANGED <<imp, wv, ar, rm, disk, ios, localMods, modSettings, settingsFile,
                   installs, reentrant, en>>

VerdictNext ==
    \E op \in {"install", "uninstall", "enable", "disable"} :
        \E modname \in VerdictNames : ValidatorCall(op, modname)

SpecVerdict == VerdictInit /\ [][VerdictNext]_vars

-----------------------------------------------------------------------------
(* Enable / disable of a mod and its submod over documents with other data *)

\* a mod's entry of the activation document: a flag or none, other data or none
ActiveEntries ==
    {m \in MapsOver({"active", "x"}, WLeaves) : "x" \in DOMAIN m => m["x"] = BoolV(TRUE)}

\* the entry of a mod that has an entry for its submod s
WithMods(m, sub) ==
    [k \in (DOMAIN m) \cup {"mods"} |->
        IF k = "mods" THEN MapV([s |-> MapV(sub)]) ELSE m[k]]

ActiveEntriesA ==
    ActiveEntries \cup {WithMods(m, sub) : m \in ActiveEntries, sub \in ActiveEntries}

\* activation documents: an entry for a, with or without one for a.s, an entry for
\* b or none, and a setting of the launcher next to "activeMods" or none
ActiveSettings ==
    {[k \in {"activeMods"} \cup top |->
         IF k = "activeMods"
         THEN MapV([n \in {"a"} \cup others |->
                       IF n = "a" THEN MapV(ea) ELSE MapV([active |-> BoolV(TRUE)])])
         ELSE BoolV(TRUE)] :
        ea \in ActiveEntriesA, others \in SUBSET {"b"}, top \in SUBSET {"x"}}

\* a with its submod a.s, and b, installed; none depends on another
ActiveDisk ==
    WritePath(WritePath(WritePath(BaseDisk,
                  ModsPath \o <<"a", "mod.json">>, ManifestB),
                  ModsPath \o <<"a", "Mods", "s", "mod.json">>, ManifestS),
                  ModsPath \o <<"b", "mod.json">>, ManifestB)

ActiveInit ==
    /\ disk = ActiveDisk
    /\ ios = FALSE
    /\ localMods = loadMods(disk)
    /\ settingsFile \in ActiveSettings
    /\ modSettings = settingsFile
    /\ recentErrors = <<>>
    /\ installs = <<>>
    /\ last = NoCall
    /\ reentrant = FALSE
    /\ en = EIdle
    /\ imp = ImpIdle
    /\ wv = WIdle
    /\ ar = AIdle
    /\ rm = RIdle

ActiveNext ==
    \/ \E modname \in Names : EnableMod(modname)
    \/ \E modname \in Names : DisableMod(modname)
    \/ GetErrors

SpecActive == ActiveInit /\ [][ActiveNext]_vars

-----------------------------------------------------------------------------
(* The validators called with names in either letter case *)

\* b is installed with a in its depends or conflicts, spelt in either case
CaseB ==
    {Manifest(dep, con, TRUE) :
        dep \in {<<>>, << <<"a">> >>, << <<"A">> >>},
        con \in {<<>>, << <<"a">> >>, << <<"A">> >>}}

CaseDisks ==
    {WritePath(WritePath(BaseDisk, ModsPath \o <<"a", "mod.json">>, ManifestB),
               ModsPath \o <<"b", "mod.json">>, mb) : mb \in CaseB}

CaseNames == { <<"a">>, <<"A">>, <<"b">>, <<"B">> }

CaseInit ==
    /\ disk \in CaseDisks
    /\ ios = FALSE
    /\ localMods = loadMods(disk)
    /\ settingsFile \in GraphSettings
    /\ modSettings = settingsFile
    /\ recentErrors = <<>>
    /\ installs = <<>>
    /\ last = NoCall
    /\ reentrant = FALSE
    /\ en = EIdle
    /\ imp = ImpIdle
    /\ wv = WIdle
    /\ ar = AIdle
    /\ rm = RIdle

CaseNext ==
    \/ \E op \in {"install", "uninstall", "enable", "disable"} :
          \E modname \in CaseNames : ValidatorCall(op, modname)
    \/ GetErrors

SpecCase == CaseInit /\ [][CaseNext]_vars

-----------------------------------------------------------------------------
(* enableMod / disableMod statement by statement *)

\* the activation view the mod list holds between calls
ActivationView == MapValue(modSettings, "activeMods")

\* enableMod(modname) (on) / disableMod(modname) up to the first statement of
\* doEnableMod: modSettings = writeValue(path, modSettings, QVariant(on)).toMap()
EnableCall(modname, on) ==
    /\ en.st = "idle"
    /\ CanDispatch
    /\ LET verdict == IF on THEN canEnableMod(modname) ELSE canDisableMod(modname)
           op == IF on THEN "enable" ELSE "disable"
       IN  IF verdict # <<>>
           THEN /\ recentErrors' = recentErrors \o verdict
                /\ last' = Returned(op, modname, FALSE, "validator")
                /\ UNCHANGED <<modSettings, en>>
           ELSE /\ modSettings' = doEnableMod(modname, on)
                /\ en' = [st |-> "written", mod |-> modname, on |-> on,
                          view |-> ActivationView]
                /\ UNCHANGED <<recentErrors, last>>
    /\ UNCHANGED <<imp, wv, ar, rm, disk, ios, localMods, settingsFile, installs, reentrant>>

\* modList->setModSettings(modSettings["activeMods"])
SetModSettings ==
    /\ en.st = "written"
    /\ en' = [en EXCEPT !.st = "viewed", !.view = ActivationView]
    /\ UNCHANGED <<imp, wv, ar, rm, disk, ios, localMods, modSettings, settingsFile,
                   recentErrors, installs, last, reentrant>>

\* modList->modChanged(mod): the list model is told and reads the mod
ModChanged ==
    /\ en.st = "viewed"
    /\ en' = [en EXCEPT !.st = "notified"]
    /\ UNCHANGED <<imp, wv, ar, rm, disk, ios, localMods, modSettings, settingsFile,
                   recentErrors, installs, last, reentrant>>

\* JsonUtils::JsonToFile(settingsPath(), modSettings); return true
JsonToFile ==
    /\ en.st = "notified"
    /\ settingsFile' = modSettings
    /\ last' = Returned(IF en.on THEN "enable" ELSE "disable", en.mod, TRUE, "ok")
    /\ en' = EIdle
    /\ UNCHANGED <<imp, wv, ar, rm, disk, ios, localMods, modSettings, recentErrors,
                   installs, reentrant>>

StepsNext ==
    \/ \E modname \in Names : \E on \in BOOLEAN : EnableCall(modname, on)
    \/ SetModSettings
    \/ ModChanged
    \/ JsonToFile
    \/ (en.st = "idle" /\ GetErrors)

SpecSteps == ActiveInit /\ [][StepsNext]_vars

-----------------------------------------------------------------------------
(* install with the ticks of its polling loop *)

\* the signal extractionProgress(0, 0)
Indeterminate == <<0, 0>>

PollTick_noSignal ==
    /\ installs # <<>>
    /\ Top.status = "running"
    /\ Len(Top.signals) < MaxTicks
    /\ installs' = [installs EXCEPT ![Len(installs)].signals = Append(@, <<0, 1>>)]
    /\ UNCHANGED <<imp, wv, ar, rm, disk, ios, localMods, modSettings, settingsFile,
                   recentErrors, last, reentrant, en>>

\* one turn of the polling loop of the innermost doInstallMod: wait_for(50ms) found
\* the task not ready; emit extractionProgress(0, 0); qApp->processEvents()
PollTick ==
    /\ installs # <<>>
    /\ Top.status = "running"
    /\ Len(Top.signals) < MaxTicks
    /\ installs' = [installs EXCEPT ![Len(installs)].signals = Append(@, Indeterminate),
                                    ![Len(installs)].serviced = @ + 1]
    /\ UNCHANGED <<imp, wv, ar, rm, disk, ios, localMods, modSettings, settingsFile,
                   recentErrors, last, reentrant, en>>

PollNext ==
    \/ \E req \in InstallRequests : InstallMod(req[1], req[2])
    \/ \E modname \in TopNames : UninstallMod(modname)
    \/ GetErrors
    \/ \E i \in 1..MaxInstalls : ExtractStep(i)
    \/ \E i \in 1..MaxInstalls : ExtractFail(i)
    \/ PollTick
    \/ InstallFinish

SpecPoll == Init /\ [][PollNext]_vars

\* the step InstallFinish takes, by what it does to the calls in flight: the
\* innermost doInstallMod returns once wait_for has reported its task ready
InstallReturns ==
    /\ installs # <<>>
    /\ Ready(Top)
    /\ installs' = Pop

\* the background task keeps running until it has finished, and the thread of
\* doInstallMod goes on once wait_for reports the task ready
SpecPollFair ==
    /\ SpecPoll
    /\ WF_vars(\E i \in 1..MaxInstalls : ExtractStep(i) \/ ExtractFail(i))
    /\ WF_installs(InstallReturns)

-----------------------------------------------------------------------------
(* The Android data import (MainActivity): the folder picker's result,     *)
(* checkDir, and the copy task; a DocumentFile tree is the sequence of its  *)
(* children, a target path the sequence of its names                        *)

MaxPicks == 2

PICK_EXTERNAL_VCMI_DATA_TO_COPY == 3
\* Activity.RESULT_OK and another result code; only their difference matters
RESULT_OK == "RESULT_OK"
RESULT_CANCELED == "RESULT_CANCELED"
\* a request code of another activity
OtherRequest == PICK_EXTERNAL_VCMI_DATA_TO_COPY + 1

DocFile(name) == [name |-> name, kind |-> "file", children |-> <<>>]
DocDir(name, children) == [name |-> name, kind |-> "dir", children |-> children]

\* String.equalsIgnoreCase over the names the model uses
FoldCase(t) ==
    CASE t = "Data" -> "data"
      [] t = "DATA" -> "data"
      [] t = "Maps" -> "maps"
      [] t = "MAPS" -> "maps"
      [] t = "Mp3" -> "mp3"
      [] t = "MP3" -> "mp3"
      [] t = "Saves" -> "saves"
      [] t = "Mods" -> "mods"
      [] OTHER -> t

equalsIgnoreCase(s, t) == FoldCase(s) = FoldCase(t)

\* the folders the user can pick
HommFolder ==
    <<DocDir("Data", <<DocFile("h3.lod")>>),
      DocDir("Maps", <<DocDir("campaigns", <<>>)>>),
      DocDir("Mp3", <<>>)>>
LowerFolder == <<DocFile("readme"), DocFile("data"), DocFile("MAPS"), DocFile("mp3")>>
NoMusicFolder == <<DocDir("Data", <<>>), DocDir("maps", <<>>)>>
EmptyFolder == <<>>
PickedFolders == {HommFolder, LowerFolder, NoMusicFolder, EmptyFolder}

\* Storage.getVcmiDataDir(owner)
VcmiDataDir == <<"vcmi-data">>

\* checkDir(uri): the three flags after the loop over sourceDir.listFiles()
checkDir(sourceDir) ==
    LET maps == \E i \in 1..Len(sourceDir) : equalsIgnoreCase("maps", sourceDir[i].name)
        mp3 == \E i \in 1..Len(sourceDir) : equalsIgnoreCase("mp3", sourceDir[i].name)
        data == \E i \in 1..Len(sourceDir) : equalsIgnoreCase("data", sourceDir[i].name)
    IN  maps /\ data /\ mp3

allowedFolders == <<"Data", "Mp3", "Maps", "Saves", "Mods", "config">>

\* the inner loop of copyDirectory: whether the child's name is in the allowed list
fileAllowed(name) ==
    \E k \in 1..Len(allowedFolders) : equalsIgnoreCase(allowedFolders[k], name)

RECURSIVE copyDirectory(_, _, _)
RECURSIVE copyChildren(_, _, _, _)

\* the loop of copyDirectory from child i on: the filesystem operations in the order
\* the loop reaches them when none returns early
copyChildren(targetDir, sourceDir, filtered, i) ==
    IF i > Len(sourceDir) THEN <<>>
    ELSE LET child == sourceDir[i]
             exported == Append(targetDir, child.name)
             here == IF filtered /\ ~fileAllowed(child.name) THEN <<>>
                     ELSE (IF child.kind = "file"
                           THEN <<[op |-> "copy", path |-> exported]>> ELSE <<>>)
                          \o (IF child.kind = "dir"
                              THEN copyDirectory(exported, child.children, FALSE)
                              ELSE <<>>)
         IN  here \o copyChildren(targetDir, sourceDir, filtered, i + 1)

\* copyDirectory(targetDir, sourceDir, allowed); filtered iff allowed is not null
copyDirectory(targetDir, sourceDir, filtered) ==
    <<[op |-> "mkdir", path |-> targetDir]>> \o copyChildren(targetDir, sourceDir, filtered, 1)

Report(msg, task) == [msg |-> msg, task |-> task]

\* GetHoMMDirProgress(progress) called for a copy task
GetHoMMDirProgress(progress, task) == Append(imp.reports, Report(progress, task))

\* the task the serial executor of AsyncTask runs: the first one that has not finished
Running == {t \in 1..Len(imp.tasks) : ~imp.tasks[t].done}
RunningTask == CHOOSE t \in Running : \A u \in Running : t <= u

\* onActivityResult(requestCode, resultCode, resultData); hasData is resultData != null,
\* uri the tree resultData.getData() names
onActivityResult(requestCode, resultCode, hasData, uri) ==
    /\ imp.handled < MaxPicks
    /\ LET result == [requestCode |-> requestCode, resultCode |-> resultCode,
                      hasData |-> hasData, uri |-> uri]
       IN  IF requestCode = PICK_EXTERNAL_VCMI_DATA_TO_COPY /\ resultCode = RESULT_OK
           THEN IF hasData
                THEN IF checkDir(uri)
                     THEN imp' = [imp EXCEPT
                                    !.result = result, !.handled = imp.handled + 1,
                                    !.reports = GetHoMMDirProgress("COPY_START",
                                                                   Len(imp.tasks) + 1),
                                    !.tasks = Append(imp.tasks,
                                        [folderToCopy |-> uri,
                                         work |-> copyDirectory(VcmiDataDir, uri, TRUE),
                                         ret |-> TRUE, failed |-> {}, done |-> FALSE])]
                     ELSE imp' = [imp EXCEPT
                                    !.result = result, !.handled = imp.handled + 1,
                                    !.reports = GetHoMMDirProgress("INVALID", 0)]
                ELSE imp' = [imp EXCEPT
                               !.result = result, !.handled = imp.handled + 1,
                               !.reports = GetHoMMDirProgress("NULL", 0)]
           ELSE \* super.onActivityResult
                imp' = [imp EXCEPT !.result = result, !.handled = imp.handled + 1]
    /\ UNCHANGED <<wv, ar, rm, disk, ios, mgr>>

\* one filesystem operation of copyDirectory on the background thread; ok is whether
\* the device lets it succeed
CopyStep(ok) ==
    /\ Running # {}
    /\ LET t == RunningTask
           task == imp.tasks[t]
       IN  /\ task.work # <<>>
           /\ LET step == Head(task.work)
                  path == step.path
                  exists == path \in imp.dirs \/ path \in imp.files
              IN  IF step.op = "mkdir"
                  THEN \* if (!targetDir.exists()) targetDir.mkdir(); the result is not used
                       IF exists
                       THEN /\ ok
                            /\ imp' = [imp EXCEPT !.tasks[t].work = Tail(task.work)]
                       ELSE IF ok /\ Parent(path) \in imp.dirs
                            THEN imp' = [imp EXCEPT !.dirs = imp.dirs \cup {path},
                                                    !.tasks[t].work = Tail(task.work)]
                            ELSE imp' = [imp EXCEPT
                                           !.tasks[t].work = Tail(task.work),
                                           !.tasks[t].failed = task.failed \cup {step}]
                  ELSE \* createNewFile, FileOutputStream, openInputStream, copyStream:
                       \* an IOException makes copyDirectory return false all the way up
                       IF ok /\ Parent(path) \in imp.dirs /\ path \notin imp.dirs
                       THEN imp' = [imp EXCEPT !.files = imp.files \cup {path},
                                               !.tasks[t].work = Tail(task.work)]
                       ELSE imp' = [imp EXCEPT
                                      !.tasks[t].work = <<>>,
                                      !.tasks[t].ret = FALSE,
                                      !.tasks[t].failed = task.failed \cup {step}]
    /\ UNCHANGED <<wv, ar, rm, disk, ios, mgr>>

\* the end of doInBackground: copyDirectory has returned ret
CopyFinish ==
    /\ Running # {}
    /\ LET t == RunningTask
           task == imp.tasks[t]
       IN  /\ task.work = <<>>
           /\ imp' = [imp EXCEPT
                        !.reports = GetHoMMDirProgress(IF task.ret THEN "COPY_END"
                                                       ELSE "COPY_FAIL", t),
                        !.tasks[t].done = TRUE]
    /\ UNCHANGED <<wv, ar, rm, disk, ios, mgr>>

\* the data directory may or may not exist before the first import
ImportInit ==
    /\ imp \in {ImpIdle, [ImpIdle EXCEPT !.dirs = {<<>>, VcmiDataDir}]}
    /\ localMods = EmptyMap
    /\ modSettings = EmptyMap
    /\ settingsFile = EmptyMap
    /\ recentErrors = <<>>
    /\ installs = <<>>
    /\ last = NoCall
    /\ reentrant = FALSE
    /\ en = EIdle
    /\ wv = WIdle
    /\ ar = AIdle
    /\ rm = RIdle
    /\ disk = NoDisk
    /\ ios = FALSE

\* the steps of the background thread
doInBackground == (\E ok \in BOOLEAN : CopyStep(ok)) \/ CopyFinish

ImportNext ==
    \/ \E requestCode \in {PICK_EXTERNAL_VCMI_DATA_TO_COPY, OtherRequest},
          resultCode \in {RESULT_OK, RESULT_CANCELED},
          uri \in PickedFolders :
            onActivityResult(requestCode, resultCode, TRUE, uri)
    \/ \E requestCode \in {PICK_EXTERNAL_VCMI_DATA_TO_COPY, OtherRequest},
          resultCode \in {RESULT_OK, RESULT_CANCELED} :
            onActivityResult(requestCode, resultCode, FALSE, EmptyFolder)
    \/ \E ok \in BOOLEAN : CopyStep(ok)
    \/ CopyFinish

SpecImport == ImportInit /\ [][ImportNext]_vars

\* the executor thread keeps running the task it has
SpecImportFair == SpecImport /\ WF_imp(doInBackground)

-----------------------------------------------------------------------------
(* Properties of the validators and of enable / disable *)

ManagerOps == {"install", "uninstall", "enable", "disable"}

Installed(k) == k \in DOMAIN localMods

\* mod k is installed and its entry of the activation document is flagged active
Enabled(k) ==
    /\ Installed(k)
    /\ ReadPath(MapValue(modSettings, "activeMods"), DotsToMods(k) \o <<"active">>)
           = BoolV(TRUE)

\* this step is enableMod(n) returning true
EnableAccepted(n) ==
    /\ last'.op = "enable"
    /\ last'.name = n
    /\ last'.ret
    /\ modSettings' # modSettings

\* C1: enableMod(P) succeeds only if every name in P's depends is a known mod that
\* is installed and enabled, no enabled mod lists P in its conflicts, and no mod
\* listed in P's conflicts is known and enabled.
EnableOnlyIfSatisfied ==
    [][\A n \in GraphNames :
          EnableAccepted(n) =>
              /\ \A i \in DOMAIN localMods[n].depends :
                    LET d == localMods[n].depends[i]
                    IN  d \in KnownMods /\ Installed(d) /\ Enabled(d)
              /\ \A k \in KnownMods :
                    ~(Enabled(k) /\ n \in Range(localMods[k].conflicts))
              /\ \A i \in DOMAIN localMods[n].conflicts :
                    LET c == localMods[n].conflicts[i]
                    IN  ~(c \in KnownMods /\ Enabled(c))]_vars

\* a was enabled with its dependency b enabled, while c, which a lists as a
\* conflict, is installed and not enabled
EnableOnlyIfSatisfiedWitness ==
    /\ last.op = "enable" /\ last.name = <<"a">> /\ last.ret
    /\ Enabled(<<"a">>)
    /\ localMods[<<"a">>].depends = << <<"b">> >>
    /\ localMods[<<"a">>].conflicts = << <<"c">> >>
    /\ Enabled(<<"b">>)
    /\ Installed(<<"c">>) /\ ~Enabled(<<"c">>)

\* this step is disableMod(n) returning
DisableReturned(n) ==
    /\ last'.op = "disable"
    /\ last'.name = n
    /\ recentErrors' # recentErrors \/ modSettings' # modSettings

EnabledDependents(n) ==
    {k \in DOMAIN localMods : Enabled(k) /\ n \in Range(localMods[k].depends)}

\* C3: disableMod(P) is rejected when an enabled mod D lists P in its depends: it
\* returns false, P stays enabled, the activation document is unchanged and the
\* logged reason names such a D.  It is also rejected when P is not enabled
\* (already disabled, or not installed).
DisableRejectedForDependent ==
    [][\A n \in GraphNames :
          DisableReturned(n) =>
              /\ (Enabled(n) /\ EnabledDependents(n) # {}) =>
                    /\ ~last'.ret
                    /\ Enabled(n)'
                    /\ modSettings' = modSettings /\ settingsFile' = settingsFile
                    /\ \E k \in EnabledDependents(n) :
                          recentErrors' = Append(recentErrors,
                              [mod |-> n, msg |-> "This mod is needed to run %1", arg |-> k])
              /\ ~Enabled(n) =>
                    /\ ~last'.ret
                    /\ modSettings' = modSettings /\ settingsFile' = settingsFile
                    /\ Len(recentErrors') = Len(recentErrors) + 1]_vars

\* disableMod(b) was rejected because the enabled a depends on b
DisableRejectedForDependentWitness ==
    /\ last.op = "disable" /\ last.name = <<"b">> /\ ~last.ret
    /\ Enabled(<<"b">>) /\ Enabled(<<"a">>)
    /\ <<"b">> \in Range(localMods[<<"a">>].depends)
    /\ recentErrors =
           << [mod |-> <<"b">>, msg |-> "This mod is needed to run %1", arg |-> <<"a">>] >>

\* this step is enableMod(n) returning
EnableReturned(n) ==
    /\ last'.op = "enable"
    /\ last'.name = n
    /\ recentErrors' # recentErrors \/ modSettings' # modSettings

\* A is installed and lists B, which is not installed, in its depends
MissingDependency(A, B) ==
    /\ Installed(A)
    /\ B \in Range(localMods[A].depends)
    /\ ~Installed(B)

\* C13 as stated: with A installed and B in A's depends not installed (unknown or
\* only offered by a repository), enableMod(A) is rejected and the logged message
\* names B as missing.
EnableNamesMissingDependency ==
    [][\A A \in GraphNames : \A B \in GraphNames \cup {<<"z">>} :
          (EnableReturned(A) /\ MissingDependency(A, B)) =>
              /\ ~last'.ret
              /\ recentErrors' = Append(recentErrors,
                     [mod |-> A, msg |-> "Required mod %1 is missing", arg |-> B])]_vars

\* B is the first of A's depends that is unknown or not enabled
FirstUnmetDependency(A, B) ==
    \E i \in DOMAIN localMods[A].depends :
        /\ localMods[A].depends[i] = B
        /\ \A j \in 1..(i - 1) :
              LET d == localMods[A].depends[j] IN d \in KnownMods /\ Enabled(d)

\* C13 amended: with A installed and B in A's depends not installed, enableMod(A)
\* is rejected and the activation document is unchanged; when A is not already
\* enabled and is compatible, and B is the first unmet dependency, the one logged
\* message names B: as missing when B is unknown, as not enabled when a
\* repository offers B.
EnableRejectedForUninstalledDependency ==
    [][\A A \in GraphNames : \A B \in GraphNames \cup {<<"z">>} :
          (EnableReturned(A) /\ MissingDependency(A, B)) =>
              /\ ~last'.ret
              /\ modSettings' = modSettings /\ settingsFile' = settingsFile
              /\ (~Enabled(A) /\ localMods[A].compatible /\ FirstUnmetDependency(A, B)) =>
                    recentErrors' = Append(recentErrors,
                        [mod |-> A,
                         msg |-> IF B \in KnownMods THEN "Required mod %1 is not enabled"
                                 ELSE "Required mod %1 is missing",
                         arg |-> B])]_vars

\* enableMod(a) was rejected for b, which a repository offers and is not installed
EnableRejectedForUninstalledDependencyWitness ==
    /\ last.op = "enable" /\ last.name = <<"a">> /\ ~last.ret
    /\ MissingDependency(<<"a">>, <<"b">>)
    /\ <<"b">> \in Repo
    /\ recentErrors =
           << [mod |-> <<"a">>, msg |-> "Required mod %1 is not enabled", arg |-> <<"b">>] >>

-----------------------------------------------------------------------------
(* Properties of the manager's operations *)

\* this step is the request op(modname) returning at once, without an extraction
RequestReturned(op, modname) ==
    /\ last'.op = op
    /\ last'.name = modname
    /\ installs' = installs
    /\ <<recentErrors, modSettings, settingsFile, disk, localMods>>'
           # <<recentErrors, modSettings, settingsFile, disk, localMods>>

\* C2: with A installed and enabled and B in A's depends, uninstallMod(B) returns
\* false, leaves B's directory in place and logs a message that names A.
UninstallRejectedForDependent ==
    [][\A B \in Names :
          (RequestReturned("uninstall", B) /\ Installed(B) /\ EnabledDependents(B) # {}) =>
              /\ ~last'.ret
              /\ DirExists(disk', ModsPath \o <<NameStr(B)>>)
              /\ \E k \in EnabledDependents(B) :
                    \E i \in DOMAIN recentErrors' :
                        recentErrors'[i].mod = k \/ recentErrors'[i].arg = k]_vars

\* C4: a request rejected by its validator returns false and changes nothing but
\* the error log: localMods, the activation document in memory and in
\* modSettings.json, and the filesystem are as before.
ValidatorRejectionChangesOnlyLog ==
    [][\A op \in ManagerOps : \A n \in Names :
          (RequestReturned(op, n) /\ Verdict(op, n) # <<>>) =>
              /\ ~last'.ret
              /\ recentErrors' = recentErrors \o Verdict(op, n)
              /\ localMods' = localMods
              /\ modSettings' = modSettings
              /\ settingsFile' = settingsFile
              /\ disk' = disk]_vars

\* enableMod(a) was rejected for its dependency b, which is installed and not enabled
ValidatorRejectionChangesOnlyLogWitness ==
    /\ last.op = "enable" /\ last.name = <<"a">> /\ ~last.ret
    /\ installs = <<>>
    /\ Installed(<<"a">>) /\ Installed(<<"b">>) /\ ~Enabled(<<"b">>) /\ ~Enabled(<<"a">>)
    /\ recentErrors =
           << [mod |-> <<"a">>, msg |-> "Required mod %1 is not enabled", arg |-> <<"b">>] >>

\* C5: no install, uninstall, enable or disable request that arrives while an
\* install is in flight is carried out before that install has finished.
NoOperationDuringInstall ==
    ~(last.op \in ManagerOps /\ last.nested /\ last.ret)

\* this step is installMod(n, ..) returning after its extraction is over
InstallReturned(n) ==
    /\ installs # <<>>
    /\ installs' = Pop
    /\ Top.modname = n
    /\ last'.op = "install"

\* C7: after installMod(name, archivePath) returned true, a directory with a
\* manifest stands in Mods for the mod, under the requested name or, when the
\* rename failed, under the name it was extracted with, and localMods holds it.
InstallTrueMeansInstalled ==
    [][\A n \in Names :
          (InstallReturned(n) /\ last'.ret) =>
              \E dir \in {NameStr(n), Top.modDirName[Len(Top.modDirName)]} :
                  /\ HasManifest(disk', ModsPath \o <<dir>>)
                  /\ <<Lower(dir)>> \in DOMAIN localMods']_vars

\* this step is a request returning false
OperationFailed ==
    /\ last'.op \in ManagerOps
    /\ ~last'.ret
    /\ Len(recentErrors') = Len(recentErrors) + 1

\* C8: after an operation that failed, localMods is what loadMods() reads from
\* the disk and the activation document in memory is the one in modSettings.json.
FailureLeavesListInSync ==
    [][OperationFailed =>
          /\ localMods' = loadMods(disk')
          /\ modSettings' = settingsFile']_vars

\* C15: after uninstallMod(name) returned true, no directory of the mod is left in
\* Mods, localMods is the reloaded list and does not hold the mod, and nothing the
\* uninstall left behind makes canInstallMod or doInstallMod's own test refuse a
\* later install of a mod that a repository offers.
UninstallTrueMeansAvailable ==
    [][\A n \in Names :
          (RequestReturned("uninstall", n) /\ last'.ret) =>
              /\ ModDirOf(disk', n) = {}
              /\ ~HasManifest(disk', ModsPath \o <<NameStr(n)>>)
              /\ localMods' = loadMods(disk')
              /\ LowerName(n) \notin DOMAIN localMods'
              /\ n \in Repo => canInstallMod(n)' = <<>>]_vars

\* b was uninstalled while its entry of the activation document still says active,
\* and it can be installed again
UninstallTrueMeansAvailableWitness ==
    /\ last.op = "uninstall" /\ last.name = <<"b">> /\ last.ret
    /\ ~Installed(<<"b">>)
    /\ ModDirOf(disk, <<"b">>) = {}
    /\ ReadPath(MapValue(modSettings, "activeMods"), <<"b", "active">>) = BoolV(TRUE)
    /\ canInstallMod(<<"b">>) = <<>>

\* uninstallMod(n) passes its validator and finds the mod in a directory that the
\* deletion guard refuses
GuardRefuses(n) ==
    /\ canUninstallMod(n) = <<>>
    /\ ModDirOf(disk, n) # {}
    /\ \A q \in ModDirOf(disk, n) : ~NamedLikeModDir(q, ios)

\* C16: when the deletion guard refuses the mod's directory, uninstallMod returns
\* false, the filesystem and localMods (so no reload took effect) are as before,
\* and exactly one error is logged: the request to remove the directory manually,
\* with the directory's absolute path.
GuardRefusalOnlyLogs ==
    [][\A n \in Names :
          (RequestReturned("uninstall", n) /\ GuardRefuses(n)) =>
              /\ ~last'.ret
              /\ disk' = disk
              /\ localMods' = localMods
              /\ modSettings' = modSettings /\ settingsFile' = settingsFile
              /\ \E q \in ModDirOf(disk, n) :
                    recentErrors' = Append(recentErrors,
                        [mod |-> n,
                         msg |-> "Mod is located in protected directory, please remove it manually:\n%1",
                         arg |-> q])]_vars

\* uninstallMod(b) was refused for the b found in home/game/Mods, which is still there
GuardRefusalOnlyLogsWitness ==
    /\ last.op = "uninstall" /\ last.name = <<"b">> /\ ~last.ret
    /\ ~ios
    /\ Installed(<<"b">>)
    /\ HasManifest(disk, DataModsPath \o <<"b">>)
    /\ recentErrors =
           << [mod |-> <<"b">>,
               msg |-> "Mod is located in protected directory, please remove it manually:\n%1",
               arg |-> DataModsPath \o <<"b">>] >>

\* C17: installMod and uninstallMod of a submod name are always rejected, with the
\* submod reason whether the submod is installed or not, and change neither the
\* filesystem nor localMods; no extraction is ever launched for a submod.
SubmodNeverInstalledAlone ==
    [][\A n \in {m \in Names : Len(m) > 1} :
          /\ \A op \in {"install", "uninstall"} :
                RequestReturned(op, n) =>
                    /\ ~last'.ret
                    /\ disk' = disk
                    /\ localMods' = localMods
                    /\ recentErrors' = Append(recentErrors,
                           [mod |-> n,
                            msg |-> IF op = "install" THEN "Can not install submod"
                                    ELSE "Can not uninstall submod",
                            arg |-> <<>>])
          /\ Len(installs') > Len(installs) => installs'[Len(installs')].modname # n]_vars

\* uninstallMod(a.s) was rejected as a submod while a.s is installed
SubmodNeverInstalledAloneWitness ==
    /\ last.op = "uninstall" /\ last.name = <<"a", "s">> /\ ~last.ret
    /\ Installed(<<"a", "s">>)
    /\ HasManifest(disk, ModsPath \o <<"a", "Mods", "s">>)
    /\ recentErrors =
           << [mod |-> <<"a", "s">>, msg |-> "Can not uninstall submod", arg |-> <<>>] >>

\* the directories of filesystem d that hold a mod.json
ManifestDirs(d) ==
    {q \in DOMAIN d : d[q].kind = "dir" /\ (q \o <<"mod.json">>) \in DOMAIN d}

\* list is exactly what filesystem d holds: one entry for each directory with a
\* mod.json, carrying that manifest's values
BuiltFrom(list, d) ==
    /\ DOMAIN list = {ModKey(q) : q \in ManifestDirs(d)}
    /\ \A q \in ManifestDirs(d) :
          LET json == d[q \o <<"mod.json">>]
          IN  /\ list[ModKey(q)].depends = json.depends
              /\ list[ModKey(q)].conflicts = json.conflicts
              /\ list[ModKey(q)].compatible = json.compatible

\* C18: loadMods() leaves exactly the list that the filesystem gives, whatever the
\* list was before, and a second loadMods() with no change to the filesystem in
\* between leaves the same list again.
ReloadIdempotent ==
    [][last'.op = "loadMods" =>
          /\ BuiltFrom(localMods', disk')
          /\ last.op = "loadMods" => localMods' = localMods]_vars

\* loadMods() dropped the entry of b, whose directory the user had deleted
ReloadIdempotentWitness ==
    /\ last.op = "loadMods"
    /\ <<"b">> \in DOMAIN last.before
    /\ <<"b">> \notin DOMAIN localMods
    /\ ModDirOf(disk, <<"b">>) = {}
    /\ BuiltFrom(localMods, disk)

\* the string "<package>: <message>" of a log entry
PackageColonMessage(e) == <<NameStr(e.mod), ": ", [text |-> e.msg, arg |-> e.arg]>>

\* C19: addError appends its one entry after those already logged; getErrors returns
\* all entries logged since the previous getErrors, in that order, each as
\* "<package>: <message>", and empties the log, so that a getErrors right after it
\* returns the empty list.
ErrorLogDrainedOnRead ==
    [][/\ last'.op = "addError" =>
             recentErrors' = Append(recentErrors,
                 [mod |-> last'.name, msg |-> last'.msg, arg |-> <<>>])
       /\ last'.op = "getErrors" =>
             /\ recentErrors' = <<>>
             /\ Len(last'.ret) = Len(recentErrors)
             /\ \A i \in DOMAIN recentErrors :
                   last'.ret[i] = PackageColonMessage(recentErrors[i])
             /\ last.op = "getErrors" => last'.ret = <<>>]_vars

\* getErrors returned the entries of two rejected calls in the order they were logged
ErrorLogDrainedOnReadWitness ==
    /\ last.op = "getErrors"
    /\ recentErrors = <<>>
    /\ last.ret =
           << <<"b", ": ", [text |-> "Mod is not installed", arg |-> <<>>]>>,
              <<"a", ": ", [text |-> "Mod is already installed", arg |-> <<>>]>> >>

-----------------------------------------------------------------------------
(* Properties of the validators called on their own *)

Rule(fails, msg, arg) == [fails |-> fails, msg |-> msg, arg |-> arg]

\* the rules of canInstallMod, in the listed order
InstallRules(n) ==
    << Rule(Len(n) > 1, "Can not install submod", <<>>),
       Rule(Installed(n), "Mod is already installed", <<>>),
       Rule(n \notin Repo, "Mod is not available", <<>>) >>

\* the rules of canUninstallMod, in the listed order
UninstallRules(n) ==
    << Rule(Len(n) > 1, "Can not uninstall submod", <<>>),
       Rule(~Installed(n), "Mod is not installed", <<>>) >>

DependsOf(n) == IF Installed(n) THEN localMods[n].depends ELSE <<>>

ConflictsOf(n) == IF Installed(n) THEN localMods[n].conflicts ELSE <<>>

\* the rules of canEnableMod, in the listed order: state, compatibility, each
\* dependency in list order (unknown before not enabled), reverse conflicts, conflicts
EnableRules(n) ==
    LET deps == DependsOf(n)
        cons == ConflictsOf(n)
        all == getModList
    IN  << Rule(Enabled(n), "Mod is already enabled", <<>>),
           Rule(~Installed(n), "Mod must be installed first", <<>>),
           Rule(Installed(n) /\ ~localMods[n].compatible,
                "Mod is not compatible, please update VCMI and checkout latest mod revisions",
                <<>>) >>
        \o [i \in 1..(2 * Len(deps)) |->
              LET d == deps[(i + 1) \div 2]
              IN  IF i % 2 = 1
                  THEN Rule(d \notin KnownMods, "Required mod %1 is missing", d)
                  ELSE Rule(~Enabled(d), "Required mod %1 is not enabled", d)]
        \o [i \in 1..Len(all) |->
              Rule(Enabled(all[i]) /\ n \in Range(ConflictsOf(all[i])),
                   "This mod conflicts with %1", all[i])]
        \o [i \in 1..Len(cons) |->
              Rule(cons[i] \in KnownMods /\ Enabled(cons[i]),
                   "This mod conflicts with %1", cons[i])]

\* the rules of canDisableMod, in the listed order
DisableRules(n) ==
    LET all == getModList
    IN  << Rule(Installed(n) /\ ~Enabled(n), "Mod is already disabled", <<>>),
           Rule(~Installed(n), "Mod must be installed first", <<>>) >>
        \o [i \in 1..Len(all) |->
              Rule(Enabled(all[i]) /\ n \in Range(DependsOf(all[i])),
                   "This mod is needed to run %1", all[i])]

RulesOf(op, n) ==
    CASE op = "install"   -> InstallRules(n)
      [] op = "uninstall" -> UninstallRules(n)
      [] op = "enable"    -> EnableRules(n)
      [] op = "disable"   -> DisableRules(n)

\* the reason of the first failing rule, as the one log entry; <<>> when no rule fails
FirstReason(n, rules) ==
    LET failing == {i \in DOMAIN rules : rules[i].fails}
    IN  IF failing = {} THEN <<>>
        ELSE LET first == CHOOSE i \in failing : \A j \in failing : i <= j
             IN  << [mod |-> n, msg |-> rules[first].msg, arg |-> rules[first].arg] >>

\* C12: a validator call succeeds when none of its rules fails, and otherwise
\* appends exactly one entry to the log: the reason of the first failing rule in
\* the listed order, computed from the package graph alone.
ValidatorFirstFailingRule ==
    [][\A op \in ManagerOps : \A n \in VerdictNames :
          (last'.op = "validate" /\ last'.rule = op /\ last'.name = n) =>
              /\ recentErrors' = recentErrors \o FirstReason(n, RulesOf(op, n))
              /\ last'.ret = (FirstReason(n, RulesOf(op, n)) = <<>>)]_vars

\* canEnableMod(a) logged the unknown dependency z although a also conflicts with
\* the enabled c: the dependency rule comes first
ValidatorFirstFailingRuleWitness ==
    /\ last.op = "validate" /\ last.rule = "enable" /\ last.name = <<"a">> /\ ~last.ret
    /\ recentErrors =
           << [mod |-> <<"a">>, msg |-> "Required mod %1 is missing", arg |-> <<"z">>] >>
    /\ Enabled(<<"c">>)
    /\ <<"c">> \in Range(ConflictsOf(<<"a">>))

-----------------------------------------------------------------------------
(* Properties of enable after a conflict *)

\* the enabled mods in conflict with A, in either direction
EnabledConflicts(A) ==
    {k \in KnownMods :
        Enabled(k) /\ (A \in Range(ConflictsOf(k)) \/ k \in Range(ConflictsOf(A)))}

\* A is installed, not enabled and compatible, and all its depends are enabled
ReadyButForConflicts(A) ==
    /\ Installed(A) /\ ~Enabled(A)
    /\ localMods[A].compatible
    /\ \A d \in Range(localMods[A].depends) : d \in KnownMods /\ Enabled(d)

\* the step enableMod(A) succeeds and leaves A enabled
EnableSucceeds(A) ==
    /\ last'.ret
    /\ Enabled(A)'
    /\ settingsFile' = modSettings'

\* the step enableMod(A) is rejected with the one reason "conflicts with C"
RejectedCiting(A, C) ==
    /\ ~last'.ret
    /\ modSettings' = modSettings
    /\ recentErrors' = Append(recentErrors,
           [mod |-> A, msg |-> "This mod conflicts with %1", arg |-> C])

\* enableMod(A) right after a successful disableMod(C), with nothing else in A's way
AfterDisable(A, C) ==
    /\ last.op = "disable" /\ last.name = C /\ last.ret
    /\ ReadyButForConflicts(A)
    /\ EnabledConflicts(A) = {}

\* C14 as stated: with C in A's conflicts and C installed and enabled, enableMod(A)
\* (of an A that is not enabled yet) is rejected with a reason citing C; after
\* disableMod(C) has succeeded, with A ready and no other enabled conflict, the
\* next enableMod(A) succeeds.
EnableRejectedCitingConflict ==
    [][\A A \in GraphNames : \A C \in GraphNames :
          (EnableReturned(A) /\ C \in Range(ConflictsOf(A))) =>
              /\ (Enabled(C) /\ ~Enabled(A)) => RejectedCiting(A, C)
              /\ AfterDisable(A, C) => EnableSucceeds(A)]_vars

\* C14 amended: with C in A's conflicts and C installed and enabled, enableMod(A) is
\* rejected and the document is unchanged, and the reason cites C when A is
\* otherwise ready and C is the only enabled mod in conflict with A; after
\* disableMod(C) has succeeded, with A ready and no other enabled conflict, the
\* next enableMod(A) succeeds and A is enabled.
EnableAfterConflictDisabled ==
    [][\A A \in GraphNames : \A C \in GraphNames :
          (EnableReturned(A) /\ C \in Range(ConflictsOf(A))) =>
              /\ Enabled(C) =>
                    /\ ~last'.ret
                    /\ modSettings' = modSettings /\ settingsFile' = settingsFile
                    /\ (ReadyButForConflicts(A) /\ EnabledConflicts(A) = {C}) =>
                          RejectedCiting(A, C)
              /\ AfterDisable(A, C) => EnableSucceeds(A)]_vars

\* a was enabled after its conflict c, installed, had been disabled by disableMod
EnableAfterConflictDisabledWitness ==
    /\ last.op = "enable" /\ last.name = <<"a">> /\ last.ret
    /\ Enabled(<<"a">>)
    /\ <<"c">> \in Range(ConflictsOf(<<"a">>))
    /\ Installed(<<"c">>)
    /\ ReadPath(MapValue(modSettings, "activeMods"), <<"c", "active">>) = BoolV(FALSE)

-----------------------------------------------------------------------------
(* Properties of the activation flag written by enable / disable *)

\* the route of the flag of mod n: each '.' of the name is a "/mods/" step
ActiveRoute(n) ==
    IF Len(n) = 1 THEN <<"activeMods", n[1], "active">>
    ELSE <<"activeMods", n[1], "mods", n[2], "active">>

\* this step is enableMod(n) (on) or disableMod(n) (not on) returning true
ActivationWritten(n, on) ==
    /\ last'.op = (IF on THEN "enable" ELSE "disable")
    /\ last'.name = n
    /\ last'.ret

\* the keys of node v are those of node w and k, and no other
NoKeyAdded(v, w, k) ==
    w.t = "map" => (DOMAIN w.m) \subseteq ((IF v.t = "map" THEN DOMAIN v.m ELSE {}) \cup {k})

\* C20: a successful enableMod(n) / disableMod(n) writes true / false at the route
\* "activeMods" + n with each '.' turned into "mods" + "active" and nothing else: at
\* every node along the route the other keys keep their subtrees and no key but the
\* route's appears, so for a submod the parent's own flag, the other mods' entries and
\* the data beside them are unchanged; the file holds the written document, and the
\* mod then reads as enabled / disabled.
ActivationWritesOneLeaf ==
    [][\A n \in Names : \A on \in BOOLEAN :
          ActivationWritten(n, on) =>
              LET r == ActiveRoute(n)
                  before == MapV(modSettings)
                  after == MapV(modSettings')
              IN  /\ ReadPath(after, r) = BoolV(on)
                  /\ \A i \in 0..(Len(r) - 1) :
                        /\ SiblingsKept(ReadPath(before, SubSeq(r, 1, i)),
                                        ReadPath(after, SubSeq(r, 1, i)), r[i + 1])
                        /\ NoKeyAdded(ReadPath(before, SubSeq(r, 1, i)),
                                      ReadPath(after, SubSeq(r, 1, i)), r[i + 1])
                  /\ Len(n) = 2 =>
                        ReadPath(after, <<"activeMods", n[1], "active">>)
                            = ReadPath(before, <<"activeMods", n[1], "active">>)
                  /\ settingsFile' = modSettings'
                  /\ Enabled(n)' = on]_vars

\* a.s has just been enabled: its parent a is still flagged inactive, the data beside
\* both flags and the entry of b are in place
ActivationWritesOneLeafWitness ==
    /\ last.op = "enable"
    /\ last.name = <<"a", "s">>
    /\ last.ret
    /\ ReadPath(MapV(modSettings), <<"activeMods", "a", "mods", "s", "active">>) = BoolV(TRUE)
    /\ ReadPath(MapV(modSettings), <<"activeMods", "a", "mods", "s", "x">>) = BoolV(TRUE)
    /\ ReadPath(MapV(modSettings), <<"activeMods", "a", "active">>) = BoolV(FALSE)
    /\ ReadPath(MapV(modSettings), <<"activeMods", "a", "x">>) = BoolV(TRUE)
    /\ ReadPath(MapV(modSettings), <<"activeMods", "b", "active">>) = BoolV(TRUE)
    /\ ReadPath(MapV(modSettings), <<"x">>) = BoolV(TRUE)

-----------------------------------------------------------------------------
(* Properties of install: the archive inspection and the extraction *)

\* no entry of the archive is a mod.json in the root, one or two folders deep
NoManifest(archivePath) ==
    /\ archivePath \in DOMAIN ArchiveFiles
    /\ \A i \in DOMAIN ArchiveFiles[archivePath] :
          LET name == ArchiveFiles[archivePath][i].name
          IN  ~(IsManifest(name) /\ Len(name) <= 3)

\* this step is installMod(n, archivePath) returning without a launch
InstallReturnedAtOnce(n, archivePath) ==
    /\ last'.op = "install"
    /\ last'.name = n
    /\ last'.archive = archivePath
    /\ installs' = installs
    /\ recentErrors' # recentErrors

\* the files and directories below the Mods directory
UnderMods(d) == {q \in DOMAIN d : IsPrefix(ModsPath, q) /\ q # ModsPath}

\* C21: installMod called with an archive that holds no mod.json at a searched depth
\* returns false without launching the extraction: nothing is written below Mods,
\* localMods is unchanged and exactly one error is logged; when the request passed
\* canInstallMod that error is "Mod archive is invalid or corrupted".
InstallRejectedForNoManifest ==
    [][\A req \in InstallRequests :
          (NoManifest(req[2]) /\ InstallMod(req[1], req[2])) =>
              /\ InstallReturnedAtOnce(req[1], req[2])
              /\ ~last'.ret
              /\ UnderMods(disk') = UnderMods(disk)
              /\ disk' = disk
              /\ localMods' = localMods
              /\ Len(recentErrors') = Len(recentErrors) + 1
              /\ (~Installed(req[1]) /\ req[1] \in Repo) =>
                    recentErrors'[Len(recentErrors')].msg
                        = "Mod archive is invalid or corrupted"]_vars

\* install from the archive without a manifest has just been rejected as invalid,
\* with nothing below Mods
InstallRejectedForNoManifestWitness ==
    /\ last.op = "install"
    /\ last.archive = "bad_zip"
    /\ ~last.ret
    /\ installs = <<>>
    /\ Len(recentErrors) = 1
    /\ recentErrors[1].msg = "Mod archive is invalid or corrupted"
    /\ UnderMods(disk) = {}
    /\ DOMAIN localMods = {}

\* this step is the background task of the install in flight i writing one entry
Extracted(i) ==
    /\ i \in DOMAIN installs
    /\ Len(installs') = Len(installs)
    /\ installs'[i].extracted = installs[i].extracted + 1

\* path q is the located root of install i below Mods, inside it, or a folder above it
WithinLocatedRoot(i, q) ==
    LET root == ModsPath \o installs[i].modDirName
    IN  IsPrefix(root, q) \/ IsPrefix(q, root)

\* C22: every file or directory the background extraction of an install writes lies
\* in the folder detectModArchive located; entries of the archive outside that
\* folder are not written below Mods.
ExtractionWithinLocatedRoot ==
    [][\A i \in 1..MaxInstalls :
          Extracted(i) =>
              \A q \in (DOMAIN disk') \ (DOMAIN disk) : WithinLocatedRoot(i, q)]_vars

\* this step is installMod(n, ...) returning true after QFile::rename failed
InstalledUnderExtractedName(n) ==
    /\ InstallReturned(n)
    /\ last'.ret
    /\ ~last'.renamed

\* C23: when the extraction succeeded and the rename to the requested name failed,
\* the extracted mod directory, with its manifest, is still on disk under the name
\* it has in the archive when installMod returns, also when that directory lies
\* inside a wrapping outer folder.
RenameFailureKeepsExtracted ==
    [][\A n \in Names :
          InstalledUnderExtractedName(n) =>
              /\ DirExists(disk', ModsPath \o Top.modDirName)
              /\ HasManifest(disk', ModsPath \o Top.modDirName)]_vars

-----------------------------------------------------------------------------
(* Properties of the validators called with names in either letter case *)

\* name n is in list, compared without regard to letter case
ListedIgnoringCase(n, list) ==
    \E i \in DOMAIN list : LowerName(list[i]) = LowerName(n)

\* the validator of operation op has just been called with name n
Validated(op, n) ==
    /\ last.op = "validate"
    /\ last.rule = op
    /\ last.name = n

\* C24: the validators compare mod names without regard to letter case: canEnableMod
\* rejects a name that an enabled mod lists in its conflicts, canDisableMod rejects a
\* name that an enabled mod lists in its depends, and canInstallMod rejects a name
\* that is installed, whatever the letter case of the requested and the listed name.
ValidatorsIgnoreCase ==
    \A n \in CaseNames :
        /\ (/\ Validated("enable", n)
            /\ \E k \in DOMAIN localMods :
                  Enabled(k) /\ ListedIgnoringCase(n, localMods[k].conflicts))
               => ~last.ret
        /\ (/\ Validated("disable", n)
            /\ \E k \in DOMAIN localMods :
                  Enabled(k) /\ ListedIgnoringCase(n, localMods[k].depends))
               => ~last.ret
        /\ (Validated("install", n) /\ LowerName(n) \in DOMAIN localMods)
               => ~last.ret

-----------------------------------------------------------------------------
(* Properties of the search order of detectModArchive *)

\* the positions of the entries "<folder>/mod.json" and "<folder>/<folder>/mod.json"
ShallowManifests(files) == {i \in DOMAIN files : IsManifest(files[i]) /\ Len(files[i]) = 2}
DeepManifests(files) == {i \in DOMAIN files : IsManifest(files[i]) /\ Len(files[i]) = 3}

\* C25: detectModArchive searches all entries for "<folder>/mod.json" before it
\* searches for "<folder>/<folder>/mod.json": for an archive with manifests at both
\* depths the result is the folder of the first shallow one, wherever the deep one
\* stands in the list, and a two-folder result is returned only when the archive
\* has no shallow manifest.
DetectShallowBeforeDeep ==
    ar.st = "done" =>
        LET shallow == ShallowManifests(ar.files)
            deep == DeepManifests(ar.files)
        IN  /\ (shallow # {} /\ deep # {}) =>
                  \E i \in shallow :
                      /\ \A j \in shallow : i <= j
                      /\ ar.out = <<ar.files[i][1]>>
            /\ Len(ar.out) = 2 =>
                  /\ shallow = {}
                  /\ \E i \in deep : ar.out = SubSeq(ar.files[i], 1, 2)

\* the deep manifest stands before the shallow one of another folder
DetectShallowBeforeDeepWitness ==
    /\ ar.st = "done"
    /\ ar.files = << <<"Foo", "Bar", "mod.json">>, <<"Foo", "x">>, <<"Bar", "mod.json">> >>
    /\ ar.out = <<"Bar">>

-----------------------------------------------------------------------------
(* Properties of the installed-mod list *)

\* this step is a call returning: enable, disable or getErrors, or any call that
\* returned false
LeavesListAlone ==
    /\ last' # last
    /\ \/ last'.op \in {"enable", "disable", "getErrors"}
       \/ (last'.op \in ManagerOps /\ ~last'.ret)

\* C26: localMods changes only in the reload at the end of an install or uninstall
\* that returns true: enable, disable, getErrors, every call that returns false and
\* the steps of the extraction leave it unchanged, and when it changes the list is
\* the one loadMods() reads from the filesystem as the operation left it.
ListChangesOnlyByReload ==
    [][/\ LeavesListAlone => localMods' = localMods
       /\ localMods' # localMods =>
             /\ last'.op \in {"install", "uninstall"}
             /\ last'.ret
             /\ localMods' = loadMods(disk')]_vars

\* a with its submod has just been uninstalled: both entries left the list
ListChangesOnlyByReloadWitness ==
    /\ last.op = "uninstall"
    /\ last.name = <<"a">>
    /\ last.ret
    /\ <<"b">> \in DOMAIN localMods
    /\ <<"a">> \notin DOMAIN localMods
    /\ <<"a", "s">> \notin DOMAIN localMods
    /\ ~DirExists(disk, ModsPath \o <<"a">>)

-----------------------------------------------------------------------------
(* Properties of the order of the statements of enable / disable *)

\* the "mod changed" notification of a successful enableMod / disableMod has just
\* been emitted
NotificationObserved == en.st = "notified"

\* C27: when the "mod changed" notification of a successful enable or disable is
\* observed, the active leaf is written, the document in modSettings.json is the
\* written one and the activation view of the mod list holds the written flag.
PersistedBeforeNotification ==
    NotificationObserved =>
        /\ ReadPath(MapV(modSettings), ActiveRoute(en.mod)) = BoolV(en.on)
        /\ en.view = MapValue(modSettings, "activeMods")
        /\ settingsFile = modSettings

-----------------------------------------------------------------------------
(* Properties of the polling loop of install *)

\* this step is a turn of the polling loop of the innermost install
Ticked ==
    /\ installs # <<>>
    /\ Len(installs') = Len(installs)
    /\ installs'[Len(installs)].signals # Top.signals

\* this step is the innermost install going on after its polling loop
LeftPollingLoop ==
    /\ installs # <<>>
    /\ installs' = Pop

\* C28: a turn of the polling loop is taken while the background extraction has not
\* completed, and emits exactly one extractionProgress(0, 0) and services the event
\* loop once; install goes on after the loop (result consumed, rename, wrapper
\* removal, rescan and reload, or cleanup and error) only when the task has completed.
PollsUntilExtractionCompletes ==
    [][/\ Ticked =>
             /\ Top.status = "running"
             /\ installs'[Len(installs)].signals = Append(Top.signals, <<0, 0>>)
             /\ installs'[Len(installs)].serviced = Top.serviced + 1
             /\ UNCHANGED <<disk, localMods, recentErrors, last>>
       /\ LeftPollingLoop => Top.status \in {"ok", "failed"}
       /\ (installs # <<>> /\ Top.status = "running") =>
             /\ localMods' = localMods
             /\ (last' # last => last'.op # "install")]_vars

\* the extraction of an install has completed after two turns of the polling loop:
\* two signals are out, the event loop was serviced twice, the mod is extracted under
\* its archive name and the list does not hold it yet
PollsUntilExtractionCompletesWitness ==
    /\ installs # <<>>
    /\ Top.status = "ok"
    /\ Top.archivePath = "wb_zip"
    /\ Top.signals = << <<0, 0>>, <<0, 0>> >>
    /\ Top.serviced = 2
    /\ HasManifest(disk, ModsPath \o <<"w", "b">>)
    /\ ~DirExists(disk, ModsPath \o <<"b">>)
    /\ <<"b">> \notin DOMAIN localMods

-----------------------------------------------------------------------------
(* Properties of the termination of install *)

\* the call and the progress of the extraction of the innermost install
Extraction(f) == <<f.modname, f.archivePath, f.filesToExtract>>

\* C29: an extraction that has started is never cancelled: while its task runs the
\* install stays in its polling loop with the same task, which loses none of its
\* progress, and the install leaves the loop only with the task finished in success
\* or failure; if the task keeps running until it finishes, every install returns.
InstallRunsToCompletion ==
    /\ [][(installs # <<>> /\ Top.status = "running") =>
             /\ Len(installs') = Len(installs)
             /\ Extraction(installs'[Len(installs)]) = Extraction(Top)
             /\ installs'[Len(installs)].extracted >= Top.extracted]_vars
    /\ [][LeftPollingLoop => Top.status \in {"ok", "failed"}]_vars
    /\ (installs # <<>>) ~> (installs = <<>>)

\* an install whose extraction failed after its first entry has returned false
InstallRunsToCompletionWitness ==
    /\ installs = <<>>
    /\ last.op = "install"
    /\ last.archive = "a_zip"
    /\ ~last.ret
    /\ Len(recentErrors) = 1
    /\ recentErrors[1].msg = "Failed to extract mod data"

-----------------------------------------------------------------------------
(* Properties of install after a failed extraction *)

\* this step is installMod(n, ...) returning after its extraction reported failure
ExtractionFailureReturned(n) ==
    /\ InstallReturned(n)
    /\ Top.status = "failed"

\* C30: when the extraction reports failure, installMod returns false with exactly
\* one error, "Failed to extract mod data", logged, localMods is not reloaded, nothing
\* is renamed to the requested name, and the partially extracted directory (Mods +
\* the located mod folder) no longer exists, whether the located folder is one or two
\* folders deep.
FailedExtractionCleansUp ==
    [][\A n \in Names :
          ExtractionFailureReturned(n) =>
              /\ ~last'.ret
              /\ recentErrors' = recentErrors \o Err(n, "Failed to extract mod data", <<>>)
              /\ localMods' = localMods
              /\ (DOMAIN disk') \subseteq (DOMAIN disk)
              /\ ~DirExists(disk', ModsPath \o Top.modDirName)]_vars

-----------------------------------------------------------------------------
(* Properties of the early rejections of install *)

\* a mod directory named n, in any letter case, with a manifest stands in Mods
PackageOnDisk(n) ==
    \E q \in SubDirs(disk, ModsPath) :
        Lower(DirName(q)) = Lower(NameStr(n)) /\ HasManifest(disk, q)

\* C31: installMod called with an archive file that does not exist, or for a mod
\* that already stands on disk, returns false at once, before the archive is
\* inspected or extracted: one error is logged, and the filesystem and localMods
\* are unchanged.
InstallRejectedEarly ==
    [][\A req \in InstallRequests :
          (/\ InstallMod(req[1], req[2])
           /\ (req[2] \notin DOMAIN ArchiveFiles \/ PackageOnDisk(req[1]))) =>
              /\ InstallReturnedAtOnce(req[1], req[2])
              /\ ~last'.ret
              /\ Len(recentErrors') = Len(recentErrors) + 1
              /\ recentErrors'[Len(recentErrors')].msg
                     \in {"Mod archive is missing", "Mod is already installed",
                          "Mod with such name is already installed"}
              /\ disk' = disk
              /\ localMods' = localMods]_vars

\* install from an archive file that does not exist has just been rejected
InstallRejectedEarlyWitness ==
    /\ last.op = "install"
    /\ last.archive = "none_zip"
    /\ ~last.ret
    /\ installs = <<>>
    /\ Len(recentErrors) = 1
    /\ recentErrors[1].msg = "Mod archive is missing"
    /\ <<"a">> \in DOMAIN localMods
    /\ <<"b">> \notin DOMAIN localMods

-----------------------------------------------------------------------------
(* Invariants kept by enable / disable *)

\* every enabled mod has each mod of its depends installed and enabled
DependenciesSatisfied ==
    \A k \in DOMAIN localMods :
        Enabled(k) => \A i \in DOMAIN localMods[k].depends :
                          Enabled(localMods[k].depends[i])

\* C32: enableMod and disableMod, accepted or rejected, keep "every enabled mod has
\* all the mods of its depends installed and enabled": a step from a state where it
\* holds leads to a state where it holds.
EnableDisableKeepDependencies ==
    [][DependenciesSatisfied => DependenciesSatisfied']_vars

\* a, which needs b and c, has just been enabled with both enabled
EnableDisableKeepDependenciesWitness ==
    /\ last.op = "enable"
    /\ last.name = <<"a">>
    /\ last.ret
    /\ DependsOf(<<"a">>) = << <<"b">>, <<"c">> >>
    /\ Enabled(<<"a">>) /\ Enabled(<<"b">>) /\ Enabled(<<"c">>)
    /\ DependenciesSatisfied

\* no enabled mod lists another enabled mod in its conflicts
NoEnabledConflict ==
    \A k \in DOMAIN localMods : \A j \in DOMAIN localMods :
        (Enabled(k) /\ Enabled(j)) => j \notin Range(localMods[k].conflicts)

\* C33: enableMod and disableMod keep "no two enabled mods conflict": a step from a
\* state where no enabled mod lists another enabled mod in its conflicts leads to
\* such a state.
EnableDisableKeepNoConflict ==
    [][NoEnabledConflict => NoEnabledConflict']_vars

\* enableMod(a) has just been rejected because the enabled b lists a in its conflicts
EnableDisableKeepNoConflictWitness ==
    /\ last.op = "enable"
    /\ last.name = <<"a">>
    /\ ~last.ret
    /\ Enabled(<<"b">>)
    /\ <<"a">> \in Range(ConflictsOf(<<"b">>))
    /\ ~Enabled(<<"a">>)
    /\ DependsOf(<<"a">>) = <<>>
    /\ NoEnabledConflict

-----------------------------------------------------------------------------
(* Properties of the activation state across install and uninstall *)

\* C34: a mod that installMod has just installed is disabled, also when it had been
\* enabled before an earlier uninstall: it becomes enabled only through an enableMod
\* that canEnableMod accepted.
InstalledMeansDisabled ==
    [][\A n \in Names :
          (InstallReturned(n) /\ last'.ret /\ Installed(n)') => ~Enabled(n)']_vars

\* C35: the activation document, in memory and in modSettings.json, changes only in
\* an enableMod or disableMod that returns true: installMod and uninstallMod,
\* returning true or false, and the steps of the extraction leave both as they are,
\* and the active flag of a mod that is uninstalled stays as it was.
OnlyEnableDisableWriteSettings ==
    [][/\ (modSettings' # modSettings \/ settingsFile' # settingsFile) =>
             (last'.op \in {"enable", "disable"} /\ last'.ret)
       /\ (last' # last /\ last'.op \in {"install", "uninstall"}) =>
             /\ UNCHANGED <<modSettings, settingsFile>>
             /\ ReadPath(MapV(settingsFile'), ActiveRoute(last'.name))
                    = ReadPath(MapV(settingsFile), ActiveRoute(last'.name))
       /\ installs' # installs => UNCHANGED <<modSettings, settingsFile>>]_vars

\* b has just been uninstalled and its entry of the document still says active
OnlyEnableDisableWriteSettingsWitness ==
    /\ last.op = "uninstall"
    /\ last.name = <<"b">>
    /\ last.ret
    /\ ~Installed(<<"b">>)
    /\ ReadPath(MapV(modSettings), ActiveRoute(<<"b">>)) = BoolV(TRUE)
    /\ settingsFile = modSettings

-----------------------------------------------------------------------------
(* Properties of what install removes *)

\* the mods other than n that are installed under the name the repository knows
\* them by and whose directory stands in Mods
OtherInstalled(n) ==
    {k \in (DOMAIN localMods) \cap Repo :
        /\ k # LowerName(n)
        /\ HasManifest(disk, ModsPath \o k)}

\* this step is installMod(n, ...) returning through the cleanup of a failed
\* extraction, or past a rename that did not take place
CleanupPathTaken(n) ==
    /\ InstallReturned(n)
    /\ (Top.status = "failed" \/ ~last'.renamed)

\* C36: the cleanup installMod(n, ...) does after a failed extraction and its
\* removal of a wrapper folder leave the directory of every other installed mod in
\* place, whatever folders the entries of the archive name.
InstallKeepsOtherMods ==
    [][\A n \in Names :
          CleanupPathTaken(n) =>
              \A k \in OtherInstalled(n) : DirExists(disk', ModsPath \o k)]_vars

-----------------------------------------------------------------------------
(* Properties of the return value and the error log *)

\* this step is installMod, uninstallMod, enableMod or disableMod returning
OperationReturned ==
    /\ last'.op \in ManagerOps
    /\ (last' # last \/ recentErrors' # recentErrors)

\* C37: with one request at a time, an operation that returns false has appended
\* exactly one entry, about the mod it was called for, to the error log, and an
\* operation that returns true has appended none; the steps of an install before
\* its return append nothing.
ReturnAgreesWithLog ==
    [][/\ OperationReturned =>
             IF last'.ret
             THEN recentErrors' = recentErrors
             ELSE /\ Len(recentErrors') = Len(recentErrors) + 1
                  /\ SubSeq(recentErrors', 1, Len(recentErrors)) = recentErrors
                  /\ recentErrors'[Len(recentErrors')].mod = last'.name
       /\ (installs' # <<>>) => recentErrors' = recentErrors]_vars

\* uninstallMod has just returned false for a mod that is not installed, with its
\* one entry in the log, after an install that returned true with none
ReturnAgreesWithLogWitness ==
    /\ last.op = "uninstall"
    /\ last.name = <<"b">>
    /\ ~last.ret
    /\ recentErrors = Err(<<"b">>, "Mod is not installed", <<>>)
    /\ Installed(<<"a">>)

-----------------------------------------------------------------------------
(* Properties of the Android data import *)

\* this step handles a result of the folder picker with RESULT_OK
AcceptedResult ==
    /\ imp'.handled = imp.handled + 1
    /\ imp'.result.requestCode = PICK_EXTERNAL_VCMI_DATA_TO_COPY
    /\ imp'.result.resultCode = RESULT_OK

\* this step reports msg and nothing else
ReportsOnly(msg) ==
    /\ Len(imp'.reports) = Len(imp.reports) + 1
    /\ SubSeq(imp'.reports, 1, Len(imp.reports)) = imp.reports
    /\ imp'.reports[Len(imp'.reports)].msg = msg

\* the spellings of a name in either letter case that the folders of the model use
Spellings(name) ==
    CASE name = "maps" -> {"maps", "Maps", "MAPS"}
      [] name = "data" -> {"data", "Data", "DATA"}
      [] name = "mp3" -> {"mp3", "Mp3", "MP3"}

ContainsEntry(folder, name) == \E i \in 1..Len(folder) : folder[i].name \in Spellings(name)

\* each accepted result reports exactly one of COPY_START, INVALID and NULL
AcceptedResultReportsOnce ==
    [][AcceptedResult => \E msg \in {"COPY_START", "INVALID", "NULL"} : ReportsOnly(msg)]_vars

\* COPY_START is reported only for a picked folder with entries maps, data and mp3
CopyStartOnlyForGameFolder ==
    [][(AcceptedResult /\ ReportsOnly("COPY_START")) =>
          /\ imp'.result.hasData
          /\ ContainsEntry(imp'.result.uri, "maps")
          /\ ContainsEntry(imp'.result.uri, "data")
          /\ ContainsEntry(imp'.result.uri, "mp3")]_vars

ReportsOf(t, msgs) ==
    {i \in 1..Len(imp.reports) : imp.reports[i].task = t /\ imp.reports[i].msg \in msgs}

CopyStarted(t) == ReportsOf(t, {"COPY_START"}) # {}

\* exactly one of COPY_END and COPY_FAIL has followed the COPY_START of task t
CopyEnded(t) ==
    /\ Cardinality(ReportsOf(t, {"COPY_END", "COPY_FAIL"})) = 1
    /\ \A i \in ReportsOf(t, {"COPY_START"}), j \in ReportsOf(t, {"COPY_END", "COPY_FAIL"}) :
          i < j

\* a copy task never reports its end twice, nor before its COPY_START
CopyEndsAtMostOnce ==
    \A t \in 1..Len(imp.tasks) :
       /\ Cardinality(ReportsOf(t, {"COPY_START"})) = 1
       /\ ReportsOf(t, {"COPY_END", "COPY_FAIL"}) # {} => CopyEnded(t)

\* each COPY_START is eventually followed by its COPY_END or COPY_FAIL
CopyStartLeadsToEnd ==
    \A t \in 1..MaxPicks : CopyStarted(t) ~> CopyEnded(t)

\* COPY_END is reported only by a task all of whose copy steps succeeded
CopyEndOnlyAfterSuccess ==
    \A i \in 1..Len(imp.reports) :
       imp.reports[i].msg = "COPY_END" => imp.tasks[imp.reports[i].task].failed = {}

\* C38: each accepted folder-picker result reports exactly one of COPY_START, INVALID
\* and NULL; COPY_START is reported only when the picked folder has entries named maps,
\* data and mp3 in either letter case; each COPY_START is eventually followed by exactly
\* one of COPY_END and COPY_FAIL; and COPY_END is reported only if every copy step
\* succeeded.
ImportReportsAgreeWithCopy ==
    /\ AcceptedResultReportsOnce
    /\ CopyStartOnlyForGameFolder
    /\ []CopyEndsAtMostOnce
    /\ CopyStartLeadsToEnd
    /\ []CopyEndOnlyAfterSuccess

====
